---- MODULE Spec2Model ----
(***************************************************************************)
(* State-machine model of the insights pipeline of nilai-backend:          *)
(*   GET /insights/quote    (src/controllers/insights.js 12-71)            *)
(*   GET /insights/summary  (src/controllers/insights.js 74-226)           *)
(*   the daily cron run     (src/utils/services/insights.js 6-42)          *)
(*   generateDailySummaryForUser / generateDailyQuote (same file)          *)
(* Every `await` of a handler is a step of its own, so that requests and   *)
(* the cron run interleave exactly where the event loop lets them.         *)
(*                                                                         *)
(* Time is a count of ticks, TicksPerDay ticks to the calendar day.  The   *)
(* application reads the calendar date of its clock with toISOString (the  *)
(* UTC date); CURRENT_DATE, DATE(), the parsing of a DATE column and the   *)
(* cron expression use the time zone of the host, tz ticks ahead of UTC    *)
(* (store session and node process are taken to share it).                 *)
(***************************************************************************)
EXTENDS Integers, Sequences, FiniteSets, TLC

\* ------------------------------------------------------------- bounds
TicksPerDay == 2
MaxTicks    == 2
StartDay    == 9
MaxSeeds    == 2
MaxMoods    == 2
MaxEntries  == 1
MaxJournals == 2

\* ------------------------------------------------- program constants
WindowDays  == 7
TopLimit    == 5

\* o1 is the owner whose requests are followed, o2 another owner writing
\* entries of its own, Ghost a subject with a valid token and no users row
Owners   == {"o1", "o2"}
Ghost    == "ghost"
Callers  == {"o1", Ghost}
Requests == {"r1", "r2"}
Cron     == "cron"
Procs    == Requests \cup {Cron}

StartTick == StartDay * TicksPerDay
MaxTick   == StartTick + MaxTicks

VARIABLES
  now,        \* the clock, in ticks
  tz,         \* ticks by which the host's time zone is ahead of UTC
  users,      \* users rows (the user_id of a row is its subject)
  entries,    \* journal_entries rows
  quotes,     \* daily_quotes rows
  summaries,  \* daily_summaries rows
  proc,       \* the running handlers and the cron run, with their locals
  nlpLog      \* the calls made to the NLP service: <<proc, endpoint, owner>>

vars == <<now, tz, users, entries, quotes, summaries, proc, nlpLog>>

\* ------------------------------------------------------------- clocks
\* new Date().toISOString().split("T")[0]
AppDate(t) == t \div TicksPerDay

\* CURRENT_DATE, DATE(created_at) in the store's session time zone
StoreDate(t) == (t + tz) \div TicksPerDay

\* new Date(row.summary_date).toISOString().split("T")[0]: the driver hands
\* a DATE column over as local midnight of that date, toISOString prints the
\* UTC date of that instant
ParsedDate(d) == AppDate(d * TicksPerDay - tz)

CURRENT_DATE == StoreDate(now)

\* d = new Date(); d.setDate(d.getDate() - n)
DaysAgo(t, n) == t - n * TicksPerDay

\* ------------------------------------------------------- collaborators
Undefined == "undefined"

\* What POST /insights/quote of the NLP service can answer to caller p: a
\* quote (its text labelled by the caller, so that a row tells who wrote
\* it), or a body without one.  A thrown error is the third outcome (see
\* QuoteNlp).
QuoteReplies(p) ==
  { [title |-> "title", quote |-> q, author |-> "author",
     citation |-> "citation", explanation |-> "explanation"] :
       q \in {p, Undefined} }

NoPayload == [absent |-> TRUE]

\* ----------------------------------------------------------- the store
\* a users row as an INSERT ... RETURNING * leaves it: last_login_at is set
\* by a later login only.  An email is <<local part, domain>>, a username
\* <<stem, suffix>> (the text is the two put together).
UserRow(uid, email, username) ==
  [user_id |-> uid, firebase_uid |-> uid, email |-> email,
   username |-> username, last_login_at |-> 0]

\* the users select without its WHERE clause
AnyUser(uid) == users

\* SELECT ... FROM users WHERE firebase_uid = $1
UsersOf(uid) == {u \in users : u.firebase_uid = uid}

\* the users signed up before the server is looked at
SeedUsers == {UserRow(o, <<o, "example.com">>, <<o, "">>) : o \in Owners}

\* created_at >= $2 (no upper bound): the window of the controller and of
\* generateDailyQuote
EntriesSince(o, since) ==
  {e \in entries : e.user_id = o /\ e.created_at >= since}


\* the lookup of the quote handler by the date of the application's clock
QuotesOfAppToday(o) ==
  {q \in quotes : q.user_id = o /\ q.quote_date = AppDate(now)}

\* SELECT ... FROM daily_quotes WHERE user_id = $1 AND quote_date = CURRENT_DATE
QuotesToday(o) ==
  {q \in quotes : q.user_id = o /\ q.quote_date = CURRENT_DATE}

\* daily_quotes without the constraint: no insert is refused
QuoteKeyFree(o, d) == FALSE

\* The (user_id, quote_date) uniqueness constraint of daily_quotes: an insert
\* of a second row for the pair is refused with a unique violation.
QuoteKeyTaken(o, d) ==
  \E q \in quotes : q.user_id = o /\ q.quote_date = d

\* the columns of the cache-hit select
CachedColumns(q) ==
  [title |-> q.title, quote |-> q.quote, author |-> q.author,
   citation |-> q.citation, explanation |-> q.explanation]

\* the columns of the read-back select
StoredColumns(q) ==
  [title |-> q.title, quote |-> q.quote, author |-> q.author,
   citation |-> q.citation, explanation |-> q.explanation,
   quote_date |-> q.quote_date]

\* ------------------------------------------------------------ handlers
NoResp == [status |-> 0, body |-> [pending |-> TRUE]]

\* the request a handler is serving (what it reads of it): the words of the
\* authorization header, the route, the :id parameter and the body fields
NoReq ==
  [header |-> <<>>, route |-> "none", id |-> <<>>, title |-> Undefined,
   content |-> Undefined, favourite |-> [type |-> "undefined", value |-> FALSE],
   email |-> <<>>, username |-> <<>>]

Idle ==
  [kind |-> "idle", uid |-> "none", userId |-> "none", pc |-> "idle",
   today |-> 0, yesterday |-> 0, recent |-> <<>>, payload |-> NoPayload,
   since |-> 0, until |-> 0, count |-> 0, periodStart |-> 0,
   periodEnd |-> 0, todo |-> {},
   nlp |-> "none", hit |-> FALSE, wrote |-> FALSE, after |-> {},
   lookupDate |-> 0, insertDate |-> 0, readDate |-> 0,
   found |-> {}, tried |-> <<>>, req |-> NoReq,
   resp |-> NoResp, cause |-> "none"]

\* the handler has answered; what is kept of its locals is what it did
Done(r, status, body, cause) ==
  [Idle EXCEPT !.kind = r.kind, !.uid = r.uid, !.userId = r.userId,
               !.pc = "done", !.today = r.today, !.recent = r.recent,
               !.nlp = r.nlp, !.hit = r.hit, !.wrote = r.wrote,
               !.after = r.after, !.lookupDate = r.lookupDate,
               !.insertDate = r.insertDate, !.readDate = r.readDate,
               !.req = [NoReq EXCEPT !.id = r.req.id],
               !.cause = cause,
               !.resp = [status |-> status, body |-> body]]

Respond(p, status, body, cause) ==
  proc' = [proc EXCEPT ![p] = Done(proc[p], status, body, cause)]

QuoteSentinel ==
  [message |-> "Start journaling to receive personalized daily quotes!"]
QuoteError == [error |-> "Failed to fetch daily quote"]
UserNotFound == [error |-> "User not found"]

\* a request arrives (already authenticated as uid)
QuoteStart(p, uid) ==
  /\ proc[p].kind = "idle"
  /\ proc' = [proc EXCEPT ![p] =
       [Idle EXCEPT !.kind = "quote", !.uid = uid, !.pc = "q_user",
                    !.after = {q \in Requests : proc[q].pc = "done"}]]
  /\ UNCHANGED <<now, tz, users, entries, quotes, summaries, nlpLog>>

QuoteUser(p, dbOk) ==
  /\ proc[p].pc = "q_user"
  /\ IF ~dbOk THEN Respond(p, 500, QuoteError, "store")
     ELSE IF UsersOf(proc[p].uid) = {} THEN Respond(p, 404, UserNotFound, "none")
     ELSE proc' = [proc EXCEPT ![p].userId = proc[p].uid, ![p].pc = "q_lookup"]
  /\ UNCHANGED <<now, tz, users, entries, quotes, summaries, nlpLog>>

\* the handler without the look at today's row: every request generates
QuoteLookupNoCache(p, dbOk) ==
  /\ proc[p].pc = "q_lookup"
  /\ IF ~dbOk THEN Respond(p, 500, QuoteError, "store")
     ELSE proc' = [proc EXCEPT ![p].pc = "q_entries",
                     ![p].lookupDate = CURRENT_DATE,
                     ![p].since = DaysAgo(now, WindowDays)]
  /\ UNCHANGED <<now, tz, users, entries, quotes, summaries, nlpLog>>

\* existingQuote: hit answers the row, miss goes on to generateDailyQuote
QuoteLookup(p, dbOk) ==
  /\ proc[p].pc = "q_lookup"
  /\ LET rows == QuotesToday(proc[p].userId) IN
     IF ~dbOk THEN Respond(p, 500, QuoteError, "store")
     ELSE IF rows # {} THEN
       \E q \in rows :
         proc' = [proc EXCEPT ![p] =
           Done([proc[p] EXCEPT !.hit = TRUE, !.lookupDate = CURRENT_DATE],
                200, CachedColumns(q), "none")]
     ELSE proc' = [proc EXCEPT ![p].pc = "q_entries",
                     ![p].lookupDate = CURRENT_DATE,
                     ![p].since = DaysAgo(now, WindowDays)]
  /\ UNCHANGED <<now, tz, users, entries, quotes, summaries, nlpLog>>

\* generateDailyQuote without the test for an empty window
QuoteEntriesNoTest(p, dbOk) ==
  /\ proc[p].pc = "q_entries"
  /\ LET rows == EntriesSince(proc[p].userId, proc[p].since) IN
     IF ~dbOk THEN Respond(p, 200, QuoteSentinel, "store")
     ELSE proc' = [proc EXCEPT ![p].pc = "q_nlp",
                     ![p].count = Cardinality(rows)]
  /\ UNCHANGED <<now, tz, users, entries, quotes, summaries, nlpLog>>

\* generateDailyQuote, up to the call of the NLP service; a store error and
\* an empty window both make it return null, which the handler answers with
\* the sentinel.  count is the number of rows the call is made with.
QuoteEntries(p, dbOk) ==
  /\ proc[p].pc = "q_entries"
  /\ LET rows == EntriesSince(proc[p].userId, proc[p].since) IN
     IF ~dbOk THEN Respond(p, 200, QuoteSentinel, "store")
     ELSE IF rows = {} THEN
       proc' = [proc EXCEPT ![p] =
         Done([proc[p] EXCEPT !.nlp = "skipped"], 200, QuoteSentinel, "none")]
     ELSE proc' = [proc EXCEPT ![p].pc = "q_nlp",
                     ![p].count = Cardinality(rows)]
  /\ UNCHANGED <<now, tz, users, entries, quotes, summaries, nlpLog>>

\* the handler testing !quote only: a reply without a quote is stored
QuoteNlpNoQuoteTest(p, threw, reply) ==
  /\ proc[p].pc = "q_nlp"
  /\ nlpLog' = nlpLog \cup {<<p, "quote", proc[p].userId>>}
  /\ IF threw THEN
       proc' = [proc EXCEPT ![p] =
         Done([proc[p] EXCEPT !.nlp = "threw"], 200, QuoteSentinel, "none")]
     ELSE proc' = [proc EXCEPT ![p].pc = "q_insert", ![p].payload = reply,
                     ![p].count = 0,
                     ![p].nlp = IF reply.quote = Undefined THEN "unusable"
                                ELSE "ok"]
  /\ UNCHANGED <<now, tz, users, entries, quotes, summaries>>

\* the reply of the NLP service: an error (caught, null), or response.data
QuoteNlp(p, threw, reply) ==
  /\ proc[p].pc = "q_nlp"
  /\ nlpLog' = nlpLog \cup {<<p, "quote", proc[p].userId>>}
  /\ IF threw THEN
       proc' = [proc EXCEPT ![p] =
         Done([proc[p] EXCEPT !.nlp = "threw"], 200, QuoteSentinel, "none")]
     ELSE IF reply.quote = Undefined THEN
       proc' = [proc EXCEPT ![p] =
         Done([proc[p] EXCEPT !.nlp = "unusable"], 200, QuoteSentinel, "none")]
     ELSE proc' = [proc EXCEPT ![p].pc = "q_insert", ![p].nlp = "ok",
                     ![p].payload = reply, ![p].count = 0]
  /\ UNCHANGED <<now, tz, users, entries, quotes, summaries>>

\* The default of the quote_date column, which the insert leaves to the
\* store ("let the DEFAULT CURRENT_DATE handle the date").
QuoteDateDefault == CURRENT_DATE

\* the insert as an upsert: the owner's earlier rows give way to the new one
QuoteInsertReplacing(p, dbOk) ==
  /\ proc[p].pc = "q_insert"
  /\ LET o == proc[p].userId
         r == proc[p].payload IN
     IF ~dbOk THEN
       /\ Respond(p, 500, QuoteError, "store")
       /\ UNCHANGED quotes
     ELSE
       /\ quotes' = {q \in quotes : q.user_id # o} \cup
            {[user_id |-> o,
              quote_date |-> QuoteDateDefault, title |-> r.title,
              quote |-> r.quote, author |-> r.author,
              citation |-> r.citation, explanation |-> r.explanation]}
       /\ proc' = [proc EXCEPT ![p].pc = "q_readback", ![p].wrote = TRUE,
                     ![p].insertDate = QuoteDateDefault]
  /\ UNCHANGED <<now, tz, users, entries, summaries, nlpLog>>

\* INSERT INTO daily_quotes, quote_date DEFAULT CURRENT_DATE
QuoteInsert(p, dbOk) ==
  /\ proc[p].pc = "q_insert"
  /\ LET o == proc[p].userId
         r == proc[p].payload IN
     IF ~dbOk THEN
       /\ Respond(p, 500, QuoteError, "store")
       /\ UNCHANGED quotes
     ELSE IF QuoteKeyTaken(o, QuoteDateDefault) THEN
       /\ Respond(p, 500, QuoteError, "unique")
       /\ UNCHANGED quotes
     ELSE
       /\ quotes' = quotes \cup
            {[user_id |-> o,
              quote_date |-> QuoteDateDefault, title |-> r.title,
              quote |-> r.quote, author |-> r.author,
              citation |-> r.citation, explanation |-> r.explanation]}
       /\ proc' = [proc EXCEPT ![p].pc = "q_readback", ![p].wrote = TRUE,
                     ![p].insertDate = QuoteDateDefault]
  /\ UNCHANGED <<now, tz, users, entries, summaries, nlpLog>>

\* stored: the read-back, answered as stored.rows[0]
QuoteReadBack(p, dbOk) ==
  /\ proc[p].pc = "q_readback"
  /\ LET rows == QuotesToday(proc[p].userId) IN
     IF ~dbOk THEN Respond(p, 500, QuoteError, "store")
     ELSE IF rows = {} THEN
       proc' = [proc EXCEPT ![p] =
         Done([proc[p] EXCEPT !.readDate = CURRENT_DATE],
              200, [undefined |-> TRUE], "none")]
     ELSE \E q \in rows :
       proc' = [proc EXCEPT ![p] =
         Done([proc[p] EXCEPT !.readDate = CURRENT_DATE],
              200, StoredColumns(q), "none")]
  /\ UNCHANGED <<now, tz, users, entries, quotes, summaries, nlpLog>>

\* ------------------------------------------------------ daily summaries
\* What POST /insights/daily-summary can answer to caller p: a summary
\* (labelled by the caller), or a body without one.  A thrown error is the
\* third outcome (see GenNlp).
SummaryReplies(p) ==
  { [summary |-> t, key_themes |-> "themes", emotional_trends |-> "trends"] :
      t \in {p, Undefined} }

\* SELECT ... WHERE user_id = $1 AND summary_date = $2
SummariesOn(o, d) ==
  {r \in summaries : r.user_id = o /\ r.summary_date = d}

\* SELECT ... WHERE user_id = $1 ORDER BY summary_date DESC LIMIT 1
MostRecent(o) ==
  {r \in summaries : /\ r.user_id = o
                     /\ \A r2 \in summaries :
                          r2.user_id = o => r2.summary_date <= r.summary_date}

\* daily_summaries without the constraint: no insert is refused
SummaryKeyFree(o, d) == FALSE

\* The (user_id, summary_date) uniqueness constraint of daily_summaries.
SummaryKeyTaken(o, d) ==
  \E r \in summaries : r.user_id = o /\ r.summary_date = d

\* created_at >= $2 AND created_at < $3
EntriesBetween(o, since, until) ==
  {e \in entries : e.user_id = o /\ e.created_at >= since /\ e.created_at < until}

\* the response built from a daily_summaries row
SummaryBody(r) ==
  [summary |-> r.summary, key_themes |-> r.key_themes,
   emotional_trends |-> r.emotional_trends, entry_count |-> r.entry_count,
   analysis_period |-> [start |-> r.analysis_period_start,
                        end |-> r.analysis_period_end],
   generated_date |-> r.summary_date]

SummarySentinel ==
  [message |-> "No summaries available yet. Keep journaling and check back tomorrow!"]
SummaryError == [error |-> "Failed to fetch daily summary"]

SummaryStart(p, uid) ==
  /\ proc[p].kind = "idle"
  /\ proc' = [proc EXCEPT ![p] =
       [Idle EXCEPT !.kind = "summary", !.uid = uid, !.pc = "s_user",
                    !.today = AppDate(now)]]
  /\ UNCHANGED <<now, tz, users, entries, quotes, summaries, nlpLog>>

SummaryUser(p, dbOk) ==
  /\ proc[p].pc = "s_user"
  /\ IF ~dbOk THEN Respond(p, 500, SummaryError, "store")
     ELSE IF UsersOf(proc[p].uid) = {} THEN Respond(p, 404, UserNotFound, "none")
     ELSE proc' = [proc EXCEPT ![p].userId = proc[p].uid, ![p].pc = "s_recent"]
  /\ UNCHANGED <<now, tz, users, entries, quotes, summaries, nlpLog>>

\* recentSummary; with none, or one whose date is not today, the handler
\* goes on to look for entries of the past 7 days
SummaryRecent(p, dbOk) ==
  /\ proc[p].pc = "s_recent"
  /\ LET rows == MostRecent(proc[p].userId) IN
     IF ~dbOk THEN Respond(p, 500, SummaryError, "store")
     ELSE IF rows = {} THEN
       proc' = [proc EXCEPT ![p].pc = "s_entries",
                  ![p].since = DaysAgo(now, WindowDays)]
     ELSE \E r \in rows :
       IF ParsedDate(r.summary_date) # proc[p].today THEN
         proc' = [proc EXCEPT ![p].pc = "s_entries", ![p].recent = <<r>>,
                    ![p].since = DaysAgo(now, WindowDays)]
       ELSE
         proc' = [proc EXCEPT ![p] =
           Done([proc[p] EXCEPT !.recent = <<r>>, !.hit = TRUE],
                200, SummaryBody(r), "none")]
  /\ UNCHANGED <<now, tz, users, entries, quotes, summaries, nlpLog>>

\* the handler without its own look at the window: it always generates
SummaryEntriesAlwaysGenerate(p, dbOk) ==
  /\ proc[p].pc = "s_entries"
  /\ IF ~dbOk THEN Respond(p, 500, SummaryError, "store")
     ELSE proc' = [proc EXCEPT ![p].pc = "g_exist"]
  /\ UNCHANGED <<now, tz, users, entries, quotes, summaries, nlpLog>>

\* the handler answering the sentinel whenever the window is empty
SummaryEntriesNoFallback(p, dbOk) ==
  /\ proc[p].pc = "s_entries"
  /\ LET rows == EntriesSince(proc[p].userId, proc[p].since) IN
     IF ~dbOk THEN Respond(p, 500, SummaryError, "store")
     ELSE IF rows # {} THEN proc' = [proc EXCEPT ![p].pc = "g_exist"]
     ELSE
       proc' = [proc EXCEPT ![p] =
         Done([proc[p] EXCEPT !.nlp = "no_entries"], 200, SummarySentinel, "none")]
  /\ UNCHANGED <<now, tz, users, entries, quotes, summaries, nlpLog>>

\* entries: the handler's own look at the past 7 days
SummaryEntries(p, dbOk) ==
  /\ proc[p].pc = "s_entries"
  /\ LET rows == EntriesSince(proc[p].userId, proc[p].since) IN
     IF ~dbOk THEN Respond(p, 500, SummaryError, "store")
     ELSE IF rows # {} THEN proc' = [proc EXCEPT ![p].pc = "g_exist"]
     ELSE IF proc[p].recent = <<>> THEN
       proc' = [proc EXCEPT ![p] =
         Done([proc[p] EXCEPT !.nlp = "no_entries"], 200, SummarySentinel, "none")]
     ELSE
       proc' = [proc EXCEPT ![p] =
         Done([proc[p] EXCEPT !.nlp = "no_entries"],
              200, SummaryBody(proc[p].recent[1]), "none")]
  /\ UNCHANGED <<now, tz, users, entries, quotes, summaries, nlpLog>>

\* generateDailySummaryForUser returns: its locals are gone; the handler
\* goes on to newSummary, the cron run to the next user
Returned(r) ==
  IF r.kind = "summary"
  THEN [r EXCEPT !.pc = "s_new", !.since = 0, !.until = 0, !.count = 0,
                 !.periodStart = 0, !.periodEnd = 0, !.payload = NoPayload]
  ELSE [Idle EXCEPT !.kind = "cron", !.pc = "c_loop", !.today = r.today,
                    !.yesterday = r.yesterday, !.todo = r.todo,
                    !.found = r.found, !.tried = r.tried]

\* the cron loop without its per-user try/catch: the error ends the run
ThrownEndsRun(p) ==
  IF proc[p].kind = "summary"
  THEN Respond(p, 500, SummaryError, "store")
  ELSE proc' = [proc EXCEPT ![p] =
         [Idle EXCEPT !.kind = "cron", !.pc = "done", !.cause = "store"]]

\* an error that generateDailySummaryForUser does not catch: the handler
\* answers 500, the cron run logs it and goes on with the next user
Thrown(p) ==
  IF proc[p].kind = "summary"
  THEN Respond(p, 500, SummaryError, "store")
  ELSE proc' = [proc EXCEPT ![p] = Returned(proc[p])]

\* the routine without the existence check
GenExistingNoCheck(p, dbOk) ==
  /\ proc[p].pc = "g_exist"
  /\ IF ~dbOk THEN Thrown(p)
     ELSE
       proc' = [proc EXCEPT ![p].pc = "g_entries",
                  ![p].since = DaysAgo(now, WindowDays),
                  ![p].until = now,
                  ![p].periodStart = AppDate(DaysAgo(now, WindowDays)),
                  ![p].periodEnd = AppDate(DaysAgo(now, 1))]
  /\ UNCHANGED <<now, tz, users, entries, quotes, summaries, nlpLog>>

\* the routine with the period ending today instead of yesterday
GenExistingEndToday(p, dbOk) ==
  /\ proc[p].pc = "g_exist"
  /\ IF ~dbOk THEN Thrown(p)
     ELSE IF SummariesOn(proc[p].userId, proc[p].today) # {} THEN
       proc' = [proc EXCEPT ![p] = Returned(proc[p])]
     ELSE
       proc' = [proc EXCEPT ![p].pc = "g_entries",
                  ![p].since = DaysAgo(now, WindowDays),
                  ![p].until = now,
                  ![p].periodStart = AppDate(DaysAgo(now, WindowDays)),
                  ![p].periodEnd = AppDate(now)]
  /\ UNCHANGED <<now, tz, users, entries, quotes, summaries, nlpLog>>

\* generateDailySummaryForUser: existingSummary
GenExisting(p, dbOk) ==
  /\ proc[p].pc = "g_exist"
  /\ IF ~dbOk THEN Thrown(p)
     ELSE IF SummariesOn(proc[p].userId, proc[p].today) # {} THEN
       proc' = [proc EXCEPT ![p] = Returned(proc[p])]
     ELSE
       proc' = [proc EXCEPT ![p].pc = "g_entries",
                  ![p].since = DaysAgo(now, WindowDays),
                  ![p].until = now,
                  ![p].periodStart = AppDate(DaysAgo(now, WindowDays)),
                  ![p].periodEnd = AppDate(DaysAgo(now, 1))]
  /\ UNCHANGED <<now, tz, users, entries, quotes, summaries, nlpLog>>

\* generateDailySummaryForUser: the entries of [7 days ago, now)
GenEntries(p, dbOk) ==
  /\ proc[p].pc = "g_entries"
  /\ LET rows == EntriesBetween(proc[p].userId, proc[p].since, proc[p].until) IN
     IF ~dbOk THEN Thrown(p)
     ELSE IF rows = {} THEN
       proc' = [proc EXCEPT ![p] = Returned([proc[p] EXCEPT !.nlp = "skipped"])]
     ELSE
       proc' = [proc EXCEPT ![p].pc = "g_nlp", ![p].count = Cardinality(rows)]
  /\ UNCHANGED <<now, tz, users, entries, quotes, summaries, nlpLog>>

\* generateDailySummaryForUser: the reply of the NLP service; an error is
\* caught and logged
GenNlp(p, threw, reply) ==
  /\ proc[p].pc = "g_nlp"
  /\ nlpLog' = nlpLog \cup {<<p, "daily-summary", proc[p].userId>>}
  /\ IF threw THEN
       proc' = [proc EXCEPT ![p] = Returned([proc[p] EXCEPT !.nlp = "threw"])]
     ELSE
       proc' = [proc EXCEPT ![p].pc = "g_insert", ![p].payload = reply,
                  ![p].nlp = IF reply.summary = Undefined THEN "unusable" ELSE "ok"]
  /\ UNCHANGED <<now, tz, users, entries, quotes, summaries>>

\* the routine with the insert outside its try: the refusal is thrown on
GenInsertRaising(p, dbOk) ==
  /\ proc[p].pc = "g_insert"
  /\ LET o == proc[p].userId
         r == proc[p].payload IN
     IF ~dbOk \/ SummaryKeyTaken(o, proc[p].today) THEN
       /\ Thrown(p)
       /\ UNCHANGED summaries
     ELSE
       /\ summaries' = summaries \cup
            {[user_id |-> o,
              summary |-> r.summary, key_themes |-> r.key_themes,
              emotional_trends |-> r.emotional_trends,
              entry_count |-> proc[p].count,
              analysis_period_start |-> proc[p].periodStart,
              analysis_period_end |-> proc[p].periodEnd,
              summary_date |-> proc[p].today]}
       /\ proc' = [proc EXCEPT ![p] = Returned([proc[p] EXCEPT !.wrote = TRUE])]
  /\ UNCHANGED <<now, tz, users, entries, quotes, nlpLog>>

\* generateDailySummaryForUser: the insert; a store error, the unique
\* violation included, is caught and logged
GenInsert(p, dbOk) ==
  /\ proc[p].pc = "g_insert"
  /\ LET o == proc[p].userId
         r == proc[p].payload IN
     IF ~dbOk THEN
       /\ proc' = [proc EXCEPT ![p] = Returned([proc[p] EXCEPT !.cause = "store"])]
       /\ UNCHANGED summaries
     ELSE IF SummaryKeyTaken(o, proc[p].today) THEN
       /\ proc' = [proc EXCEPT ![p] = Returned([proc[p] EXCEPT !.cause = "unique"])]
       /\ UNCHANGED summaries
     ELSE
       /\ summaries' = summaries \cup
            {[user_id |-> o,
              summary |-> r.summary, key_themes |-> r.key_themes,
              emotional_trends |-> r.emotional_trends,
              entry_count |-> proc[p].count,
              analysis_period_start |-> proc[p].periodStart,
              analysis_period_end |-> proc[p].periodEnd,
              summary_date |-> proc[p].today]}
       /\ proc' = [proc EXCEPT ![p] = Returned([proc[p] EXCEPT !.wrote = TRUE])]
  /\ UNCHANGED <<now, tz, users, entries, quotes, nlpLog>>

\* the handler without the fallback: no row of today is an error
SummaryNewNoFallback(p, dbOk) ==
  /\ proc[p].pc = "s_new"
  /\ LET rows == SummariesOn(proc[p].userId, proc[p].today) IN
     IF ~dbOk THEN Respond(p, 500, SummaryError, "store")
     ELSE IF rows # {} THEN
       \E r \in rows : Respond(p, 200, SummaryBody(r), proc[p].cause)
     ELSE Respond(p, 500, SummaryError, "typeerror")
  /\ UNCHANGED <<now, tz, users, entries, quotes, summaries, nlpLog>>

\* newSummary: today's row if there is one; without one the handler falls
\* through to the code that reads recentSummary.rows[0]
SummaryNew(p, dbOk) ==
  /\ proc[p].pc = "s_new"
  /\ LET rows == SummariesOn(proc[p].userId, proc[p].today) IN
     IF ~dbOk THEN Respond(p, 500, SummaryError, "store")
     ELSE IF rows # {} THEN
       \E r \in rows : Respond(p, 200, SummaryBody(r), proc[p].cause)
     ELSE IF proc[p].recent = <<>> THEN
       Respond(p, 500, SummaryError, "typeerror")
     ELSE Respond(p, 200, SummaryBody(proc[p].recent[1]), proc[p].cause)
  /\ UNCHANGED <<now, tz, users, entries, quotes, summaries, nlpLog>>

\* ------------------------------------------------------ emotion trends
\* The emotions column: the labels of the jsonb array, in order (the
\* confidence of a label is read by no query).  A row without the column
\* stands for emotions IS NULL: jsonb_array_elements gives it no rows.
EmotionsOf(e) == IF "emotions" \in DOMAIN e THEN e.emotions ELSE <<>>

\* CURRENT_DATE as a timestamp: the midnight that began the store's today
TodayStart == CURRENT_DATE * TicksPerDay - tz

\* CURRENT_DATE - INTERVAL 'n days'
DateMinus(n) == TodayStart - n * TicksPerDay

\* unnested_emotions: one row per (entry, element) of the owner's entries
\* with created_at >= CURRENT_DATE - INTERVAL '30 days'
UnnestedEmotions(o) ==
  UNION {{[journal_id |-> e.journal_id, ix |-> i,
           created_at |-> e.created_at, emotion |-> EmotionsOf(e)[i]] :
            i \in DOMAIN EmotionsOf(e)} :
         e \in {x \in entries : /\ x.user_id = o
                                /\ x.created_at >= DateMinus(30)}}

PositiveEmotions ==
  {"gratitude", "joy", "love", "admiration", "approval", "caring",
   "excitement", "amusement", "pride", "desire", "optimism", "relief"}
NegativeEmotions ==
  {"anger", "sadness", "fear", "disgust", "disappointment", "annoyance",
   "grief", "remorse", "disapproval", "embarrassment", "nervousness"}

\* the CASE with gratitude missing from the first list
CategoryShortList(emotion) ==
  IF emotion \in PositiveEmotions \ {"gratitude"} THEN "positive"
  ELSE IF emotion \in NegativeEmotions THEN "negative"
  ELSE "ambiguous"

\* categorized_emotions: the CASE on the label
Category(emotion) ==
  IF emotion \in PositiveEmotions THEN "positive"
  ELSE IF emotion \in NegativeEmotions THEN "negative"
  ELSE "ambiguous"

\* dates: unnest(ARRAY[1, 5, 10, 15, 20, 25, 30])
TrendDays == <<1, 5, 10, 15, 20, 25, 30>>

\* the join with the second bucket ending three days ago
JoinsDayEarly(day, t) ==
  CASE day = 1  -> StoreDate(t) = CURRENT_DATE
    [] day = 5  -> t > DateMinus(5) /\ t <= DateMinus(3)
    [] day = 10 -> t > DateMinus(10) /\ t <= DateMinus(5)
    [] day = 15 -> t > DateMinus(15) /\ t <= DateMinus(10)
    [] day = 20 -> t > DateMinus(20) /\ t <= DateMinus(15)
    [] day = 25 -> t > DateMinus(25) /\ t <= DateMinus(20)
    [] day = 30 -> t > DateMinus(30) /\ t <= DateMinus(25)

\* the join condition of a bucket on a created_at
JoinsDay(day, t) ==
  CASE day = 1  -> StoreDate(t) = CURRENT_DATE
    [] day = 5  -> t > DateMinus(5) /\ t <= DateMinus(1)
    [] day = 10 -> t > DateMinus(10) /\ t <= DateMinus(5)
    [] day = 15 -> t > DateMinus(15) /\ t <= DateMinus(10)
    [] day = 20 -> t > DateMinus(20) /\ t <= DateMinus(15)
    [] day = 25 -> t > DateMinus(25) /\ t <= DateMinus(20)
    [] day = 30 -> t > DateMinus(30) /\ t <= DateMinus(25)

\* dates.day::text
DayText(day) ==
  CASE day = 1 -> "1" [] day = 5 -> "5" [] day = 10 -> "10"
    [] day = 15 -> "15" [] day = 20 -> "20" [] day = 25 -> "25"
    [] day = 30 -> "30"

\* COUNT(CASE WHEN ce.category = c THEN 1 END) over the rows joined to day
CountOf(o, day, c) ==
  Cardinality({ce \in UnnestedEmotions(o) :
                 JoinsDay(day, ce.created_at) /\ Category(ce.emotion) = c})

\* the query with an inner join: the days without a row are missing
EmotionTrendsInner(o) ==
  SelectSeq([k \in DOMAIN TrendDays |->
               [day |-> DayText(TrendDays[k]),
                positive |-> CountOf(o, TrendDays[k], "positive"),
                negative |-> CountOf(o, TrendDays[k], "negative"),
                ambiguous |-> CountOf(o, TrendDays[k], "ambiguous")]],
            LAMBDA r : r.positive + r.negative + r.ambiguous > 0)

\* the rows of the query: GROUP BY dates.day ORDER BY dates.day
EmotionTrends(o) ==
  [k \in DOMAIN TrendDays |->
     [day |-> DayText(TrendDays[k]),
      positive |-> CountOf(o, TrendDays[k], "positive"),
      negative |-> CountOf(o, TrendDays[k], "negative"),
      ambiguous |-> CountOf(o, TrendDays[k], "ambiguous")]]

TrendsError == [error |-> "Failed to fetch emotion trends"]

TrendsStart(p, uid) ==
  /\ proc[p].kind = "idle"
  /\ proc' = [proc EXCEPT ![p] =
       [Idle EXCEPT !.kind = "trends", !.uid = uid, !.pc = "t_user"]]
  /\ UNCHANGED <<now, tz, users, entries, quotes, summaries, nlpLog>>

TrendsUser(p, dbOk) ==
  /\ proc[p].pc = "t_user"
  /\ IF ~dbOk THEN Respond(p, 500, TrendsError, "store")
     ELSE IF UsersOf(proc[p].uid) = {} THEN Respond(p, 404, UserNotFound, "none")
     ELSE proc' = [proc EXCEPT ![p].userId = proc[p].uid, ![p].pc = "t_query"]
  /\ UNCHANGED <<now, tz, users, entries, quotes, summaries, nlpLog>>

\* emotionTrends: the query and the answer
TrendsQuery(p, dbOk) ==
  /\ proc[p].pc = "t_query"
  /\ IF ~dbOk THEN Respond(p, 500, TrendsError, "store")
     ELSE Respond(p, 200,
                  [emotionTrends |-> EmotionTrends(proc[p].userId)], "none")
  /\ UNCHANGED <<now, tz, users, entries, quotes, summaries, nlpLog>>

\* -------------------------------------------------------- top emotions
\* the labels of unnested_emotions (the same CTE as in emotionTrends) and
\* COUNT(*) of a label's group
LabelsOf(o) == {ce.emotion : ce \in UnnestedEmotions(o)}

Occurrences(o, l) ==
  Cardinality({ce \in UnnestedEmotions(o) : ce.emotion = l})

\* COUNT(*) is a bigint, which the driver hands over as decimal text
CountText(n) == ToString(n)

\* the query without its ORDER BY: the groups in any order
RECURSIVE AnyOrder(_, _)
AnyOrder(o, S) ==
  IF S = {} THEN {<<>>}
  ELSE UNION {{<<l>> \o rest : rest \in AnyOrder(o, S \ {l})} : l \in S}

\* ORDER BY count DESC: the orders of the groups S by non-increasing count;
\* groups of equal count come in any order
RECURSIVE SortedDesc(_, _)
SortedDesc(o, S) ==
  IF S = {} THEN {<<>>}
  ELSE UNION {{<<l>> \o rest : rest \in SortedDesc(o, S \ {l})} :
              l \in {x \in S : \A y \in S :
                                 Occurrences(o, y) <= Occurrences(o, x)}}

\* emotionCounts.rows: the outcomes of GROUP BY, ORDER BY and LIMIT 5
TopRows(o) ==
  {[k \in 1 .. (IF Len(ord) < TopLimit THEN Len(ord) ELSE TopLimit) |->
      [emotion |-> ord[k], count |-> CountText(Occurrences(o, ord[k]))]] :
     ord \in SortedDesc(o, LabelsOf(o))}

TopError == [error |-> "Failed to fetch emotion analysis"]
TopNothing == [message |-> "No journal entries found in the last 30 days"]

TopStart(p, uid) ==
  /\ proc[p].kind = "idle"
  /\ proc' = [proc EXCEPT ![p] =
       [Idle EXCEPT !.kind = "top", !.uid = uid, !.pc = "e_user"]]
  /\ UNCHANGED <<now, tz, users, entries, quotes, summaries, nlpLog>>

TopUser(p, dbOk) ==
  /\ proc[p].pc = "e_user"
  /\ IF ~dbOk THEN Respond(p, 500, TopError, "store")
     ELSE IF UsersOf(proc[p].uid) = {} THEN Respond(p, 404, UserNotFound, "none")
     ELSE proc' = [proc EXCEPT ![p].userId = proc[p].uid, ![p].pc = "e_query"]
  /\ UNCHANGED <<now, tz, users, entries, quotes, summaries, nlpLog>>

\* the handler without its test of the row count: the rows as they are
TopQueryAlwaysList(p, dbOk) ==
  /\ proc[p].pc = "e_query"
  /\ IF ~dbOk THEN Respond(p, 500, TopError, "store")
     ELSE \E rows \in TopRows(proc[p].userId) :
       Respond(p, 200, [topEmotions |-> rows], "none")
  /\ UNCHANGED <<now, tz, users, entries, quotes, summaries, nlpLog>>

\* emotionCounts: the query and the answer
TopQuery(p, dbOk) ==
  /\ proc[p].pc = "e_query"
  /\ IF ~dbOk THEN Respond(p, 500, TopError, "store")
     ELSE \E rows \in TopRows(proc[p].userId) :
       IF Len(rows) = 0 THEN Respond(p, 200, TopNothing, "none")
       ELSE Respond(p, 200, [topEmotions |-> rows], "none")
  /\ UNCHANGED <<now, tz, users, entries, quotes, summaries, nlpLog>>

\* ------------------------------------------------------------ the gate
\* verifyToken (src/utils/auth.js): every route is mounted behind it.
\* !v of a string or absent field
Falsy(v) == v \in {Undefined, ""}

\* req.headers.authorization?.split(' ')[1]: the second word of the header;
\* an absent header (no word at all) and a header of one word give undefined
TokenOf(header) == IF Len(header) >= 2 THEN header[2] ELSE Undefined

\* admin.auth().verifyIdToken: the credentials it accepts and their subjects
Tokens == {"token-o1", "token-o2", "token-ghost"}

Decoded(token) ==
  CASE token = "token-o1" -> "o1"
    [] token = "token-o2" -> "o2"
    [] token = "token-ghost" -> Ghost

Headers ==
  {<<>>, <<"Bearer">>, <<"Bearer", "">>, <<"Bearer", "garbage">>}
  \cup {<<"Bearer", t>> : t \in Tokens}

NoToken == [message |-> "No token provided"]
InvalidToken == [message |-> "Invalid token"]

\* the middleware has answered 401 to request r; no handler has run
Refused(r, body) == [Done(Idle, 401, body, "auth") EXCEPT !.req = r]

\* a request arrives at a route: the middleware reads the header and, with a
\* token, awaits its verification
Arrive(p, r) ==
  /\ proc[p].kind = "idle" /\ proc[p].pc = "idle"
  /\ IF Falsy(TokenOf(r.header))
       THEN proc' = [proc EXCEPT ![p] = Refused(r, NoToken)]
     ELSE proc' = [proc EXCEPT ![p] =
            [Idle EXCEPT !.pc = "v_token", !.req = r]]
  /\ UNCHANGED <<now, tz, users, entries, quotes, summaries, nlpLog>>

\* ------------------------------------------------------------ journals
\* The routes of src/controllers/journals.js (lines 39-218).
\* What POST /emotions of the classifier can answer (getEmotion returns
\* response.data): a list of labels, or no data at all.  A thrown error is
\* the third outcome (see JournalEmotion).
EmotionReplies ==
  {[null |-> FALSE, labels |-> <<"joy">>], [null |-> TRUE, labels |-> <<>>]}

\* emotions ? JSON.stringify(emotions) : null, stored as jsonb: a row whose
\* emotions is null has no emotions field (see EmotionsOf)
WithEmotions(row, reply) ==
  IF reply.null THEN row ELSE row @@ [emotions |-> reply.labels]

\* journal_id of the next insert: the first serial number not in use for the
\* owner and the time
FreshId(o) ==
  LET used == {e.journal_id : e \in entries}
      n == CHOOSE k \in 1 .. Cardinality(entries) + 1 :
             /\ <<o, now, k>> \notin used
             /\ \A j \in 1 .. k - 1 : <<o, now, j>> \in used IN
  <<o, now, n>>

\* the row of INSERT INTO journal_entries(user_id, title, content, emotions):
\* created_at by the store's default, favourite off, never updated (0)
NewEntry(o, title, content, reply) ==
  WithEmotions([journal_id |-> FreshId(o), user_id |-> o, created_at |-> now,
                title |-> title, content |-> content, favourite |-> FALSE,
                updated_at |-> 0], reply)

\* the lookup of an entry by its id alone
AnyEntry(id, o) == {e \in entries : e.journal_id = id}

\* WHERE journal_id = $ AND user_id = $
OwnEntry(id, o) == {e \in entries : e.journal_id = id /\ e.user_id = o}

\* SET title = $1, content = $2, emotions = $3::jsonb,
\*     updated_at = CURRENT_TIMESTAMP
Updated(e, title, content, reply) ==
  WithEmotions([journal_id |-> e.journal_id, user_id |-> e.user_id,
                created_at |-> e.created_at, title |-> title,
                content |-> content, favourite |-> e.favourite,
                updated_at |-> now], reply)

\* RETURNING journal_id, title, content, emotions (and more): the columns
\* cols of a row; a null emotions stays out (see WithEmotions)
Returning(e, cols) == [c \in cols \cap DOMAIN e |-> e[c]]

\* rows[0] of a statement that gave no row: response.json(undefined)
NoRow == [undefined |-> TRUE]

\* ORDER BY created_at DESC: the orders of the rows S; rows of one time come
\* in any order
RECURSIVE NewestFirst(_)
NewestFirst(S) ==
  IF S = {} THEN {<<>>}
  ELSE UNION {{<<e>> \o rest : rest \in NewestFirst(S \ {e})} :
              e \in {x \in S : \A y \in S : y.created_at <= x.created_at}}

MissingFields == [error |-> "Missing required fields: title, content"]
BadFavourite ==
  [error |-> "Missing or invalid field: favourite must be boolean"]
EntryNotFound == [error |-> "Journal entry not found or access denied"]

\* the message of the catch block of a route
JournalError(route) ==
  [error |-> CASE route = "list" -> "Failed to fetch journals"
               [] route = "post" -> "Failed to create journal entry"
               [] route = "put" -> "Failed to update journal entry"
               [] route = "favourite" -> "Failed to update journal favourite"
               [] route = "delete" -> "Failed to delete journal entry"]

JournalRoutes == {"list", "post", "put", "favourite", "delete"}

\* the handler entered without the tests of the body
JournalEnterNoTest(p, uid) ==
  /\ proc[p].req.route \in JournalRoutes
  /\ proc' = [proc EXCEPT ![p] =
       [Idle EXCEPT !.kind = proc[p].req.route, !.uid = uid,
                    !.req = proc[p].req, !.pc = "j_user"]]
  /\ UNCHANGED <<now, tz, users, entries, quotes, summaries, nlpLog>>

\* a journals handler is entered as uid and runs up to its first await: the
\* tests of the body, then the select of the user
JournalEnter(p, uid) ==
  LET r == proc[p].req
      me == [Idle EXCEPT !.kind = r.route, !.uid = uid, !.req = r,
                         !.pc = "j_user"] IN
  /\ r.route \in JournalRoutes
  /\ proc' = [proc EXCEPT ![p] =
       IF r.route \in {"post", "put"} /\ (Falsy(r.title) \/ Falsy(r.content))
         THEN Done(me, 400, MissingFields, "body")
       ELSE IF r.route = "favourite" /\ r.favourite.type # "boolean"
         THEN Done(me, 400, BadFavourite, "body")
       ELSE me]
  /\ UNCHANGED <<now, tz, users, entries, quotes, summaries, nlpLog>>

\* SELECT user_id FROM users WHERE firebase_uid = $1
JournalUser(p, dbOk) ==
  /\ proc[p].pc = "j_user"
  /\ IF ~dbOk THEN Respond(p, 500, JournalError(proc[p].kind), "store")
     ELSE IF UsersOf(proc[p].uid) = {}
       THEN Respond(p, 404, UserNotFound, "none")
     ELSE proc' = [proc EXCEPT
            ![p].userId = (CHOOSE u \in UsersOf(proc[p].uid) : TRUE).user_id,
            ![p].pc = CASE proc[p].kind = "list" -> "jl_rows"
                        [] proc[p].kind = "post" -> "j_emotion"
                        [] proc[p].kind = "put" -> "ju_exist"
                        [] proc[p].kind = "favourite" -> "jf_update"
                        [] proc[p].kind = "delete" -> "jd_delete"]
  /\ UNCHANGED <<now, tz, users, entries, quotes, summaries, nlpLog>>

\* GET /journals: the rows of the user, newest first
JournalList(p, dbOk) ==
  /\ proc[p].pc = "jl_rows"
  /\ IF ~dbOk THEN Respond(p, 500, JournalError("list"), "store")
     ELSE \E rows \in NewestFirst({e \in entries :
                                     e.user_id = proc[p].userId}) :
            Respond(p, 200, [rows |-> rows], "none")
  /\ UNCHANGED <<now, tz, users, entries, quotes, summaries, nlpLog>>

\* PUT /journals/:id: the entry is looked up as the user's own
PutExisting(p, dbOk) ==
  /\ proc[p].pc = "ju_exist"
  /\ IF ~dbOk THEN Respond(p, 500, JournalError("put"), "store")
     ELSE IF OwnEntry(proc[p].req.id, proc[p].userId) = {}
       THEN Respond(p, 404, EntryNotFound, "none")
     ELSE proc' = [proc EXCEPT ![p].pc = "j_emotion"]
  /\ UNCHANGED <<now, tz, users, entries, quotes, summaries, nlpLog>>

\* const emotions = await getEmotion(content), of POST and of PUT: the call
\* is inside the handler's try, a rejection goes to its catch
JournalEmotion(p, threw, reply) ==
  /\ proc[p].pc = "j_emotion"
  /\ nlpLog' = nlpLog \cup {<<p, "emotions", proc[p].userId>>}
  /\ IF threw
       THEN proc' = [proc EXCEPT ![p] =
              Done([proc[p] EXCEPT !.nlp = "threw"], 500,
                   JournalError(proc[p].kind), "classifier")]
     ELSE proc' = [proc EXCEPT
            ![p].payload = reply, ![p].nlp = "replied",
            ![p].pc = IF proc[p].kind = "post" THEN "jp_insert"
                      ELSE "ju_update"]
  /\ UNCHANGED <<now, tz, users, entries, quotes, summaries>>

\* POST /journals: the insert and the answer
PostInsert(p, dbOk) ==
  /\ proc[p].pc = "jp_insert"
  /\ IF ~dbOk
       THEN /\ Respond(p, 500, JournalError("post"), "store")
            /\ UNCHANGED entries
     ELSE LET row == NewEntry(proc[p].userId, proc[p].req.title,
                              proc[p].req.content, proc[p].payload) IN
          /\ entries' = entries \cup {row}
          /\ proc' = [proc EXCEPT ![p] =
               Done([proc[p] EXCEPT !.wrote = TRUE], 201,
                    Returning(row, {"journal_id", "title", "content",
                                    "emotions"}), "none")]
  /\ UNCHANGED <<now, tz, users, quotes, summaries, nlpLog>>

\* PUT /journals/:id: the update and the answer (rows[0], also when the
\* entry has gone since the lookup)
PutUpdate(p, dbOk) ==
  /\ proc[p].pc = "ju_update"
  /\ IF ~dbOk
       THEN /\ Respond(p, 500, JournalError("put"), "store")
            /\ UNCHANGED entries
     ELSE LET hit == OwnEntry(proc[p].req.id, proc[p].userId)
              new == {Updated(e, proc[p].req.title, proc[p].req.content,
                              proc[p].payload) : e \in hit} IN
          /\ entries' = (entries \ hit) \cup new
          /\ proc' = [proc EXCEPT ![p] =
               Done([proc[p] EXCEPT !.wrote = (hit # {})], 200,
                    IF new = {} THEN NoRow
                    ELSE Returning(CHOOSE e \in new : TRUE,
                           {"journal_id", "title", "content", "emotions",
                            "created_at", "updated_at"}), "none")]
  /\ UNCHANGED <<now, tz, users, quotes, summaries, nlpLog>>

\* PATCH /journals/:id/favourite
FavouriteUpdate(p, dbOk) ==
  /\ proc[p].pc = "jf_update"
  /\ IF ~dbOk
       THEN /\ Respond(p, 500, JournalError("favourite"), "store")
            /\ UNCHANGED entries
     ELSE LET hit == OwnEntry(proc[p].req.id, proc[p].userId)
              new == {[e EXCEPT !.favourite = proc[p].req.favourite.value] :
                        e \in hit} IN
          /\ entries' = (entries \ hit) \cup new
          /\ IF new = {} THEN Respond(p, 404, EntryNotFound, "none")
             ELSE proc' = [proc EXCEPT ![p] =
                    Done([proc[p] EXCEPT !.wrote = TRUE], 200,
                         Returning(CHOOSE e \in new : TRUE,
                                   {"journal_id", "favourite"}), "none")]
  /\ UNCHANGED <<now, tz, users, quotes, summaries, nlpLog>>

\* DELETE /journals/:id
JournalDelete(p, dbOk) ==
  /\ proc[p].pc = "jd_delete"
  /\ IF ~dbOk
       THEN /\ Respond(p, 500, JournalError("delete"), "store")
            /\ UNCHANGED entries
     ELSE LET hit == OwnEntry(proc[p].req.id, proc[p].userId) IN
          /\ entries' = entries \ hit
          /\ IF hit = {} THEN Respond(p, 404, EntryNotFound, "none")
             ELSE proc' = [proc EXCEPT ![p] =
                    Done([proc[p] EXCEPT !.wrote = TRUE], 200,
                         [message |-> "Journal entry deleted successfully",
                          journal_id |-> (CHOOSE e \in hit : TRUE).journal_id],
                         "none")]
  /\ UNCHANGED <<now, tz, users, quotes, summaries, nlpLog>>

\* ---------------------------------------------------------------- auth
\* The routes of src/controllers/auth.js.
\* users without its constraints: no insert is refused
UserKeyFree(row) == FALSE

\* The uniqueness constraints of users (firebase_uid, email, username): an
\* insert of a row that repeats one of them is refused with a unique
\* violation (error.code 23505).
UserKeyTaken(row) ==
  \E u \in users : \/ u.firebase_uid = row.firebase_uid
                   \/ u.email = row.email
                   \/ u.username = row.username

\* Math.random().toString(36).substring(2, 6): some digits, or none
Suffixes == {"", "k3f9"}

\* const { ...userData } = user: a copy of the row with no field left out
UserData(row) == row

UserExists == [message |-> "User already exists"]
KeyExists == [message |-> "Username or email already exists"]
InternalError == [message |-> "Internal server error"]
AuthUserNotFound == [message |-> "User not found"]

AuthRoutes == {"signup", "google", "verify"}

\* an auth handler is entered as uid: it awaits its first select
AuthEnter(p, uid) ==
  LET r == proc[p].req IN
  /\ r.route \in AuthRoutes
  /\ proc' = [proc EXCEPT ![p] =
       [Idle EXCEPT !.kind = r.route, !.uid = uid, !.req = r,
                    !.pc = CASE r.route = "signup" -> "s_exist"
                             [] r.route = "google" -> "o_exist"
                             [] r.route = "verify" -> "y_user"]]
  /\ UNCHANGED <<now, tz, users, entries, quotes, summaries, nlpLog>>

\* signup: SELECT * FROM users WHERE firebase_uid = $1 OR email = $2
\*         OR username = $3
SignupExisting(p, dbOk) ==
  /\ proc[p].pc = "s_exist"
  /\ IF ~dbOk THEN Respond(p, 500, InternalError, "store")
     ELSE IF \E u \in users : \/ u.firebase_uid = proc[p].uid
                              \/ u.email = proc[p].req.email
                              \/ u.username = proc[p].req.username
       THEN Respond(p, 400, UserExists, "exists")
     ELSE proc' = [proc EXCEPT ![p].pc = "s_insert"]
  /\ UNCHANGED <<now, tz, users, entries, quotes, summaries, nlpLog>>

\* signup: the insert and the answer; the catch tells a unique violation
\* from any other error
SignupInsert(p, dbOk) ==
  /\ proc[p].pc = "s_insert"
  /\ LET row == UserRow(proc[p].uid, proc[p].req.email,
                        proc[p].req.username) IN
     IF ~dbOk
       THEN /\ Respond(p, 500, InternalError, "store")
            /\ UNCHANGED users
     ELSE IF UserKeyTaken(row)
       THEN /\ Respond(p, 400, KeyExists, "unique")
            /\ UNCHANGED users
     ELSE /\ users' = users \cup {row}
          /\ proc' = [proc EXCEPT ![p] =
               Done([proc[p] EXCEPT !.wrote = TRUE], 201,
                    [message |-> "User created successfully",
                     user |-> UserData(row)], "none")]
  /\ UNCHANGED <<now, tz, entries, quotes, summaries, nlpLog>>

\* google: SELECT * FROM users WHERE firebase_uid = $1 OR email = $2; with a
\* row, rows[0] is kept for the answer (recent), the store giving the rows
\* in any order
GoogleExisting(p, dbOk) ==
  /\ proc[p].pc = "o_exist"
  /\ IF ~dbOk THEN Respond(p, 500, InternalError, "store")
     ELSE LET rows == {u \in users : \/ u.firebase_uid = proc[p].uid
                                     \/ u.email = proc[p].req.email} IN
          IF rows # {}
            THEN \E u \in rows :
                   proc' = [proc EXCEPT ![p].recent = <<u>>,
                                        ![p].pc = "o_touch"]
          ELSE proc' = [proc EXCEPT ![p].pc = "o_insert"]
  /\ UNCHANGED <<now, tz, users, entries, quotes, summaries, nlpLog>>

\* UPDATE users SET last_login_at = CURRENT_TIMESTAMP WHERE firebase_uid = $1
Touched(uid) ==
  {IF u.firebase_uid = uid THEN [u EXCEPT !.last_login_at = now] ELSE u :
     u \in users}

\* google: the login of a user that exists
GoogleTouch(p, dbOk) ==
  /\ proc[p].pc = "o_touch"
  /\ IF ~dbOk
       THEN /\ Respond(p, 500, InternalError, "store")
            /\ UNCHANGED users
     ELSE /\ users' = Touched(proc[p].uid)
          /\ Respond(p, 200, [message |-> "Login successful",
                              user |-> UserData(proc[p].recent[1])], "none")
  /\ UNCHANGED <<now, tz, entries, quotes, summaries, nlpLog>>

\* google: the insert of a new user, its username made of the local part of
\* the email and a random suffix; every error is answered 500
GoogleInsert(p, dbOk, suffix) ==
  /\ proc[p].pc = "o_insert"
  /\ LET row == UserRow(proc[p].uid, proc[p].req.email,
                        <<proc[p].req.email[1], suffix>>) IN
     IF ~dbOk \/ UserKeyTaken(row)
       THEN /\ Respond(p, 500, InternalError,
                       IF dbOk THEN "unique" ELSE "store")
            /\ UNCHANGED users
     ELSE /\ users' = users \cup {row}
          /\ proc' = [proc EXCEPT ![p] =
               Done([proc[p] EXCEPT !.wrote = TRUE], 201,
                    [message |-> "User created successfully",
                     user |-> UserData(row)], "none")]
  /\ UNCHANGED <<now, tz, entries, quotes, summaries, nlpLog>>

\* verify: SELECT * FROM users WHERE firebase_uid = $1
VerifyUser(p, dbOk) ==
  /\ proc[p].pc = "y_user"
  /\ IF ~dbOk THEN Respond(p, 500, InternalError, "store")
     ELSE IF UsersOf(proc[p].uid) = {}
       THEN Respond(p, 404, AuthUserNotFound, "none")
     ELSE proc' = [proc EXCEPT
            ![p].recent = <<CHOOSE u \in UsersOf(proc[p].uid) : TRUE>>,
            ![p].pc = "y_touch"]
  /\ UNCHANGED <<now, tz, users, entries, quotes, summaries, nlpLog>>

\* verify: the update of the login time and the answer
VerifyTouch(p, dbOk) ==
  /\ proc[p].pc = "y_touch"
  /\ IF ~dbOk
       THEN /\ Respond(p, 500, InternalError, "store")
            /\ UNCHANGED users
     ELSE /\ users' = Touched(proc[p].uid)
          /\ Respond(p, 200, [message |-> "Token verified",
                              user |-> UserData(proc[p].recent[1])], "none")
  /\ UNCHANGED <<now, tz, entries, quotes, summaries, nlpLog>>

\* ---------------------------------------------------- the gate, second step
\* next(): the handler of the route is entered
Enter(p, uid) ==
  CASE proc[p].req.route = "quote" -> QuoteStart(p, uid)
    [] proc[p].req.route = "summary" -> SummaryStart(p, uid)
    [] proc[p].req.route = "emotionTrends" -> TrendsStart(p, uid)
    [] proc[p].req.route = "topEmotions" -> TopStart(p, uid)
    [] proc[p].req.route \in JournalRoutes -> JournalEnter(p, uid)
    [] proc[p].req.route \in AuthRoutes -> AuthEnter(p, uid)

\* the middleware that lets a request through whatever its token
VerifyTokenAnyone(p, threw) ==
  /\ proc[p].pc = "v_token"
  /\ Enter(p, IF TokenOf(proc[p].req.header) \in Tokens
                THEN Decoded(TokenOf(proc[p].req.header)) ELSE Ghost)

\* await admin.auth().verifyIdToken(token): req.user is the decoded token
\* and the handler is entered, or the verification throws
VerifyToken(p, threw) ==
  /\ proc[p].pc = "v_token"
  /\ IF threw \/ TokenOf(proc[p].req.header) \notin Tokens
       THEN /\ proc' = [proc EXCEPT ![p] = Refused(proc[p].req, InvalidToken)]
            /\ UNCHANGED <<now, tz, users, entries, quotes, summaries, nlpLog>>
     ELSE Enter(p, Decoded(TokenOf(proc[p].req.header)))

\* ---------------------------------------------------------------- cron
\* generateDailySummariesForAllUsers: the users with an entry of yesterday
CronUsers(dbOk) ==
  /\ proc[Cron].pc = "c_users"
  /\ IF ~dbOk THEN
       proc' = [proc EXCEPT ![Cron] =
         [Idle EXCEPT !.kind = "cron", !.pc = "done", !.cause = "store"]]
     ELSE
       LET rows == {e.user_id : e \in
                      {x \in entries :
                         StoreDate(x.created_at) = proc[Cron].yesterday}} IN
       proc' = [proc EXCEPT ![Cron].pc = "c_loop", ![Cron].todo = rows,
                  ![Cron].found = rows]
  /\ UNCHANGED <<now, tz, users, entries, quotes, summaries, nlpLog>>

\* the loop over the users found
CronNext ==
  /\ proc[Cron].pc = "c_loop"
  /\ IF proc[Cron].todo = {} THEN
       proc' = [proc EXCEPT ![Cron] = [Idle EXCEPT !.kind = "cron", !.pc = "done"]]
     ELSE \E o \in proc[Cron].todo :
       proc' = [proc EXCEPT ![Cron].pc = "g_exist", ![Cron].userId = o,
                  ![Cron].todo = proc[Cron].todo \ {o},
                  ![Cron].tried = Append(proc[Cron].tried, o)]
  /\ UNCHANGED <<now, tz, users, entries, quotes, summaries, nlpLog>>

\* --------------------------------------------------------- environment
\* POST /journals: the insert, created_at by the store's default; the id
\* is a fresh one (owner, time and a serial number within the two)
PostJournal(o) ==
  /\ Cardinality(entries) < MaxEntries
  /\ UsersOf(o) # {}
  /\ entries' = entries \cup
       {[journal_id |-> <<o, now, Cardinality(EntriesSince(o, now)) + 1>>,
         user_id |-> o, created_at |-> now]}
  /\ UNCHANGED <<now, tz, users, quotes, summaries, proc, nlpLog>>

\* the response of a request has been delivered; its slot is free again
Finish(p) ==
  /\ proc[p].pc = "done"
  /\ proc' = [q \in Procs |->
       IF q = p THEN Idle
       ELSE [proc[q] EXCEPT !.after = proc[q].after \ {p}]]
  /\ nlpLog' = {c \in nlpLog : c[1] # p}
  /\ UNCHANGED <<now, tz, users, entries, quotes, summaries>>

LocalMidnight(t) == (t + tz) % TicksPerDay = 0

\* time passes
Tick ==
  /\ now < MaxTick
  /\ ~LocalMidnight(now + 1)
  /\ now' = now + 1
  /\ UNCHANGED <<tz, users, entries, quotes, summaries, proc, nlpLog>>

\* midnight: cron.schedule('0 0 * * *') starts a run
Midnight ==
  /\ now < MaxTick
  /\ LocalMidnight(now + 1)
  /\ proc[Cron].pc \in {"idle", "done"}
  /\ now' = now + 1
  /\ proc' = [proc EXCEPT ![Cron] =
       [Idle EXCEPT !.kind = "cron", !.pc = "c_users",
                    !.today = AppDate(now + 1),
                    !.yesterday = AppDate(DaysAgo(now + 1, 1))]]
  /\ nlpLog' = {c \in nlpLog : c[1] # Cron}
  /\ UNCHANGED <<tz, users, entries, quotes, summaries>>

\* At midnight the cron run starts; where the cron run is not looked at,
\* midnight is a tick like any other.
MidnightTick ==
  /\ now < MaxTick
  /\ LocalMidnight(now + 1)
  /\ now' = now + 1
  /\ UNCHANGED <<tz, users, entries, quotes, summaries, proc, nlpLog>>

\* --------------------------------------------------------------- model
\* a summary that an earlier day's generation left in the store
SeedSummary ==
  [user_id |-> "o1", summary |-> "s0",
   key_themes |-> "themes", emotional_trends |-> "trends", entry_count |-> 1,
   analysis_period_start |-> StartDay - 1 - WindowDays,
   analysis_period_end |-> StartDay - 2, summary_date |-> StartDay - 1]

\* the store as the server finds it: the users signed up, nothing written
\* in the last 7 days
Init ==
  /\ now = StartTick
  /\ tz \in {0, 1}
  /\ users = SeedUsers
  /\ entries = {}
  /\ quotes = {}
  /\ summaries = {}
  /\ proc = [p \in Procs |-> Idle]
  /\ nlpLog = {}

\* the same, one owner possibly with a summary of an earlier day
InitSummary ==
  /\ now = StartTick
  /\ tz \in {0, 1}
  /\ users = SeedUsers
  /\ entries = {}
  /\ quotes = {}
  /\ summaries \in {{}, {SeedSummary}}
  /\ proc = [p \in Procs |-> Idle]
  /\ nlpLog = {}

\* GET /insights/quote
QuoteNext ==
  \/ \E p \in Requests, uid \in Callers : QuoteStart(p, uid)
  \/ \E p \in Requests, dbOk \in BOOLEAN : QuoteUser(p, dbOk)
  \/ \E p \in Requests, dbOk \in BOOLEAN : QuoteLookup(p, dbOk)
  \/ \E p \in Requests, dbOk \in BOOLEAN : QuoteEntries(p, dbOk)
  \/ \E p \in Requests, threw \in BOOLEAN :
       \E reply \in QuoteReplies(p) : QuoteNlp(p, threw, reply)
  \/ \E p \in Requests, dbOk \in BOOLEAN : QuoteInsert(p, dbOk)
  \/ \E p \in Requests, dbOk \in BOOLEAN : QuoteReadBack(p, dbOk)
  \/ \E p \in Requests : Finish(p)

\* GET /insights/summary
SummaryNext ==
  \/ \E p \in Requests, uid \in Callers : SummaryStart(p, uid)
  \/ \E p \in Requests, dbOk \in BOOLEAN : SummaryUser(p, dbOk)
  \/ \E p \in Requests, dbOk \in BOOLEAN : SummaryRecent(p, dbOk)
  \/ \E p \in Requests, dbOk \in BOOLEAN : SummaryEntries(p, dbOk)
  \/ \E p \in Procs, dbOk \in BOOLEAN : GenExisting(p, dbOk)
  \/ \E p \in Procs, dbOk \in BOOLEAN : GenEntries(p, dbOk)
  \/ \E p \in Procs, threw \in BOOLEAN :
       \E reply \in SummaryReplies(p) : GenNlp(p, threw, reply)
  \/ \E p \in Procs, dbOk \in BOOLEAN : GenInsert(p, dbOk)
  \/ \E p \in Requests, dbOk \in BOOLEAN : SummaryNew(p, dbOk)

\* the cron run
CronRun ==
  \/ Midnight
  \/ \E dbOk \in BOOLEAN : CronUsers(dbOk)
  \/ CronNext

\* the environment: journal entries are written, time passes
Env ==
  \/ \E o \in Owners : PostJournal(o)
  \/ Tick

\* The quote handler reads and writes daily_quotes, the summary handler and
\* the cron run read and write daily_summaries, and both only read
\* journal_entries: the steps of the one commute with the steps of the
\* other, and each is checked with the environment alone.  SpecSummary
\* follows the requests for a summary without the cron run, SpecCron with it.
SpecQuote == Init /\ [][QuoteNext \/ Env \/ MidnightTick]_vars

SpecSummary == InitSummary /\ [][SummaryNext \/ Env \/ MidnightTick]_vars

SpecCron == InitSummary /\ [][SummaryNext \/ CronRun \/ Env]_vars

Next == QuoteNext \/ SummaryNext \/ CronRun \/ Env

Spec == Init /\ [][Next]_vars

\* ---------------------------------------------------- the cron run alone
\* entries that owners posted on the days before the run
SeedEntries ==
  {[journal_id |-> <<o, t, 1>>, user_id |-> o, created_at |-> t] :
     o \in Owners, t \in (StartTick - TicksPerDay) .. (MaxTick - 1)}

InitScheduler ==
  /\ now = StartTick
  /\ tz \in {0, 1}
  /\ users = SeedUsers
  /\ entries \in {S \in SUBSET SeedEntries : Cardinality(S) <= MaxSeeds}
  /\ quotes = {}
  /\ summaries \in {{}, {SeedSummary}}
  /\ proc = [p \in Procs |-> Idle]
  /\ nlpLog = {}

\* generateDailySummaryForUser as the cron run calls it
CronGen ==
  \/ \E dbOk \in BOOLEAN : GenExisting(Cron, dbOk)
  \/ \E dbOk \in BOOLEAN : GenEntries(Cron, dbOk)
  \/ \E threw \in BOOLEAN :
       \E reply \in SummaryReplies(Cron) : GenNlp(Cron, threw, reply)
  \/ \E dbOk \in BOOLEAN : GenInsert(Cron, dbOk)

\* the steps of a run once it has started
CronStep == (\E dbOk \in BOOLEAN : CronUsers(dbOk)) \/ CronNext \/ CronGen

SchedulerNext == Midnight \/ CronStep \/ Tick

SpecScheduler == InitScheduler /\ [][SchedulerNext]_vars

\* every query and every call of the NLP service is answered or fails
SpecSchedulerFair == SpecScheduler /\ WF_vars(CronStep)

\* ------------------------------------------------- the trends alone
\* the days before today on which the entries of the model were written
MoodDays == {0, 1, 3, 5, 7, 10, 12, 25, 30, 31}

\* what the classifier has stored with an entry
MoodLists == {<<"gratitude", "joy">>, <<"anger", "surprise">>}

\* the entries an owner can have written by now, at any time of those days
MoodEntries(z) ==
  {[journal_id |-> <<o, t, 1>>, user_id |-> o, created_at |-> t,
    emotions |-> m] :
     o \in {"o1"}, m \in MoodLists,
     t \in {(StartDay - d) * TicksPerDay - z + h :
              d \in MoodDays, h \in 0 .. TicksPerDay - 1}}
  \cup {[journal_id |-> <<"o2", StartTick - z, 1>>, user_id |-> "o2",
         created_at |-> StartTick - z, emotions |-> <<"joy">>]}

\* the subsets of P with at most n elements
RECURSIVE UpTo(_, _)
UpTo(P, n) ==
  IF n = 0 THEN {{}}
  ELSE LET less == UpTo(P, n - 1) IN
       less \cup {S \cup {a} : S \in less, a \in P}

InitTrends ==
  /\ now = StartTick
  /\ tz \in {0, 1}
  /\ users = SeedUsers
  /\ entries \in
       {S \in UpTo({e \in MoodEntries(tz) : e.created_at <= now}, MaxMoods) :
          \A a, b \in S : a.journal_id = b.journal_id => a = b}
  /\ quotes = {}
  /\ summaries = {}
  /\ proc = [p \in Procs |-> Idle]
  /\ nlpLog = {}

TrendsNext ==
  \/ \E uid \in Callers : TrendsStart("r1", uid)
  \/ \E dbOk \in BOOLEAN : TrendsUser("r1", dbOk)
  \/ \E dbOk \in BOOLEAN : TrendsQuery("r1", dbOk)

SpecTrends == InitTrends /\ [][TrendsNext]_vars

\* ------------------------------------------- the top emotions alone
\* days around the start of the 30-day window, and today
TopDays == {0, 29, 30, 31}

\* what the classifier has stored with an entry: up to six labels in all
TopLists ==
  {<<"joy", "fear", "calm", "pride">>, <<"joy", "love", "anger", "fear">>,
   <<"joy">>}

TopEntries(z) ==
  {[journal_id |-> <<o, t, 1>>, user_id |-> o, created_at |-> t,
    emotions |-> m] :
     o \in {"o1"}, m \in TopLists,
     t \in {(StartDay - d) * TicksPerDay - z + h :
              d \in TopDays, h \in 0 .. TicksPerDay - 1}}
  \cup {[journal_id |-> <<"o2", StartTick - z, 1>>, user_id |-> "o2",
         created_at |-> StartTick - z, emotions |-> <<"joy">>]}

InitTop ==
  /\ now = StartTick
  /\ tz \in {0, 1}
  /\ users = SeedUsers
  /\ entries \in
       {S \in UpTo({e \in TopEntries(tz) : e.created_at <= now}, MaxMoods) :
          \A a, b \in S : a.journal_id = b.journal_id => a = b}
  /\ quotes = {}
  /\ summaries = {}
  /\ proc = [p \in Procs |-> Idle]
  /\ nlpLog = {}

TopNext ==
  \/ \E uid \in Callers : TopStart("r1", uid)
  \/ \E dbOk \in BOOLEAN : TopUser("r1", dbOk)
  \/ \E dbOk \in BOOLEAN : TopQuery("r1", dbOk)

SpecTop == InitTop /\ [][TopNext]_vars

\* ------------------------------------------------- one request, any route
\* an id that no entry has
NoSuchId == <<"none", 0, 0>>

JsBoolean(b) == [type |-> "boolean", value |-> b]
JsString == [type |-> "string", value |-> FALSE]

\* the requests a client can send: every route, every header, and the body
\* fields and :id the route reads
RequestsTo(routes, headers) ==
  LET ids == {e.journal_id : e \in entries} \cup {NoSuchId}
      at(rt, h) == [NoReq EXCEPT !.route = rt, !.header = h] IN
  UNION {
    {at(rt, h) : rt \in routes \cap {"quote", "summary", "emotionTrends",
                                     "topEmotions", "list", "verify"}}
    \cup {[at(rt, h) EXCEPT !.title = t, !.content = c, !.id = i] :
            rt \in routes \cap {"post"}, t \in {Undefined, "title"},
            c \in {"", "content"}, i \in {NoSuchId}}
    \cup {[at(rt, h) EXCEPT !.title = tc[1], !.content = tc[2], !.id = i] :
            rt \in routes \cap {"put"}, i \in ids,
            tc \in {<<"", "content2">>, <<"title2", Undefined>>,
                    <<"title2", "content2">>}}
    \cup {[at(rt, h) EXCEPT !.favourite = v, !.id = i] :
            rt \in routes \cap {"favourite"},
            v \in {JsBoolean(TRUE), JsString}, i \in ids}
    \cup {[at(rt, h) EXCEPT !.id = i] : rt \in routes \cap {"delete"}, i \in ids}
    \cup {[at(rt, h) EXCEPT !.email = <<m, "example.com">>,
                            !.username = <<n, "">>] :
            rt \in routes \cap {"signup"}, m \in {"o1", "new"},
            n \in {"o1", "new"}}
    \cup {[at(rt, h) EXCEPT !.email = <<m, "example.com">>] :
            rt \in routes \cap {"google"}, m \in {"o1", "new"}}
    : h \in headers}

InsightRoutes == {"quote", "summary", "emotionTrends", "topEmotions"}
Routes == InsightRoutes \cup JournalRoutes \cup AuthRoutes

\* an entry written the day before by owner o
SeedJournal(o) ==
  [journal_id |-> <<o, StartTick - TicksPerDay, 1>>, user_id |-> o,
   created_at |-> StartTick - TicksPerDay, title |-> "title",
   content |-> "content", favourite |-> FALSE, updated_at |-> 0,
   emotions |-> <<"joy">>]

\* the store as one request finds it: two users, an entry of each
InitGate ==
  /\ now = StartTick
  /\ tz \in {0, 1}
  /\ users = SeedUsers
  /\ entries = {SeedJournal(o) : o \in Owners}
  /\ quotes = {}
  /\ summaries \in {{}, {SeedSummary}}
  /\ proc = [p \in Procs |-> Idle]
  /\ nlpLog = {}

\* the steps of the insights handlers of request p
InsightSteps(p) ==
  \/ \E dbOk \in BOOLEAN : QuoteUser(p, dbOk)
  \/ \E dbOk \in BOOLEAN : QuoteLookup(p, dbOk)
  \/ \E dbOk \in BOOLEAN : QuoteEntries(p, dbOk)
  \/ \E threw \in BOOLEAN :
       \E reply \in QuoteReplies(p) : QuoteNlp(p, threw, reply)
  \/ \E dbOk \in BOOLEAN : QuoteInsert(p, dbOk)
  \/ \E dbOk \in BOOLEAN : QuoteReadBack(p, dbOk)
  \/ \E dbOk \in BOOLEAN : SummaryUser(p, dbOk)
  \/ \E dbOk \in BOOLEAN : SummaryRecent(p, dbOk)
  \/ \E dbOk \in BOOLEAN : SummaryEntries(p, dbOk)
  \/ \E dbOk \in BOOLEAN : GenExisting(p, dbOk)
  \/ \E dbOk \in BOOLEAN : GenEntries(p, dbOk)
  \/ \E threw \in BOOLEAN :
       \E reply \in SummaryReplies(p) : GenNlp(p, threw, reply)
  \/ \E dbOk \in BOOLEAN : GenInsert(p, dbOk)
  \/ \E dbOk \in BOOLEAN : SummaryNew(p, dbOk)
  \/ \E dbOk \in BOOLEAN : TrendsUser(p, dbOk)
  \/ \E dbOk \in BOOLEAN : TrendsQuery(p, dbOk)
  \/ \E dbOk \in BOOLEAN : TopUser(p, dbOk)
  \/ \E dbOk \in BOOLEAN : TopQuery(p, dbOk)

\* the steps of the journals handlers of request p
JournalSteps(p) ==
  \/ \E dbOk \in BOOLEAN : JournalUser(p, dbOk)
  \/ \E dbOk \in BOOLEAN : JournalList(p, dbOk)
  \/ \E dbOk \in BOOLEAN : PutExisting(p, dbOk)
  \/ \E threw \in BOOLEAN :
       \E reply \in EmotionReplies : JournalEmotion(p, threw, reply)
  \/ \E dbOk \in BOOLEAN : PostInsert(p, dbOk)
  \/ \E dbOk \in BOOLEAN : PutUpdate(p, dbOk)
  \/ \E dbOk \in BOOLEAN : FavouriteUpdate(p, dbOk)
  \/ \E dbOk \in BOOLEAN : JournalDelete(p, dbOk)

\* the steps of the auth handlers of request p
AuthSteps(p) ==
  \/ \E dbOk \in BOOLEAN : SignupExisting(p, dbOk)
  \/ \E dbOk \in BOOLEAN : SignupInsert(p, dbOk)
  \/ \E dbOk \in BOOLEAN : GoogleExisting(p, dbOk)
  \/ \E dbOk \in BOOLEAN : GoogleTouch(p, dbOk)
  \/ \E dbOk \in BOOLEAN, suffix \in Suffixes : GoogleInsert(p, dbOk, suffix)
  \/ \E dbOk \in BOOLEAN : VerifyUser(p, dbOk)
  \/ \E dbOk \in BOOLEAN : VerifyTouch(p, dbOk)

GateNext ==
  \/ \E r \in RequestsTo(Routes, Headers) : Arrive("r1", r)
  \/ \E threw \in BOOLEAN : VerifyToken("r1", threw)
  \/ InsightSteps("r1")
  \/ JournalSteps("r1")
  \/ AuthSteps("r1")

\* one request to any route, from its arrival to its answer
SpecGate == InitGate /\ [][GateNext]_vars

\* ------------------------------------------------- the journals alone
\* the store as the journals requests find it: two users, an entry of one
InitJournals ==
  /\ now = StartTick
  /\ tz = 0
  /\ users = SeedUsers
  /\ entries = {SeedJournal("o2")}
  /\ quotes = {}
  /\ summaries = {}
  /\ proc = [p \in Procs |-> Idle]
  /\ nlpLog = {}

\* a request to one of routes with token t arrives at slot p; no more than
\* MaxJournals entries are ever asked for
JournalArrives(p, t, routes) ==
  \E r \in RequestsTo(routes, {<<"Bearer", t>>}) :
    /\ r.route = "post" => Cardinality(entries) < MaxJournals
    /\ Arrive(p, r)

\* Requests of o1 to every route in one slot, one after the other, while o2
\* deletes in the other slot, in any interleaving of their steps; both aim
\* at any entry there is, their own or not.
JournalsNext ==
  \/ JournalArrives("r1", "token-o1", JournalRoutes)
  \/ JournalArrives("r2", "token-o2", {"delete"})
  \/ \E p \in Requests, threw \in BOOLEAN : VerifyToken(p, threw)
  \/ \E p \in Requests : JournalSteps(p)
  \/ \E p \in Requests : Finish(p)

SpecJournals == InitJournals /\ [][JournalsNext]_vars

\* the steps of request p that the server takes on its own: the middleware
\* and every await on the store.  The answers of the classifier and of the
\* NLP service (QuoteNlp, GenNlp, JournalEmotion) are not among them: the
\* client of src/utils/services/axios.js sets no timeout, so the await on
\* them ends only when the service answers or the connection fails.
LocalSteps(p) ==
  \/ \E threw \in BOOLEAN : VerifyToken(p, threw)
  \/ \E dbOk \in BOOLEAN :
       \/ QuoteUser(p, dbOk) \/ QuoteLookup(p, dbOk) \/ QuoteEntries(p, dbOk)
       \/ QuoteInsert(p, dbOk) \/ QuoteReadBack(p, dbOk)
       \/ SummaryUser(p, dbOk) \/ SummaryRecent(p, dbOk)
       \/ SummaryEntries(p, dbOk) \/ GenExisting(p, dbOk)
       \/ GenEntries(p, dbOk) \/ GenInsert(p, dbOk) \/ SummaryNew(p, dbOk)
       \/ TrendsUser(p, dbOk) \/ TrendsQuery(p, dbOk)
       \/ TopUser(p, dbOk) \/ TopQuery(p, dbOk)
       \/ JournalUser(p, dbOk) \/ JournalList(p, dbOk)
       \/ PutExisting(p, dbOk) \/ PostInsert(p, dbOk) \/ PutUpdate(p, dbOk)
       \/ FavouriteUpdate(p, dbOk) \/ JournalDelete(p, dbOk)
  \/ AuthSteps(p)

\* one request whose own steps are always taken in the end; the external
\* services answer or do not
SpecGateFair == SpecGate /\ WF_vars(LocalSteps("r1"))

\* ------------------------------------ top emotions, entries without labels
\* entries as POST /journals leaves them when the classifier answered null
\* (no emotions), an empty list, or one label; inside and outside the window
QuietEntries(z) ==
  LET at == {(StartDay - d) * TicksPerDay - z + h :
               d \in TopDays, h \in 0 .. TicksPerDay - 1}
      bare(o, t) == [journal_id |-> <<o, t, 1>>, user_id |-> o,
                     created_at |-> t] IN
  {bare("o1", t) : t \in at}
  \cup {WithEmotions(bare("o1", t), [null |-> FALSE, labels |-> m]) :
          t \in at, m \in {<<>>, <<"joy">>}}
  \cup {WithEmotions(bare("o2", StartTick - z),
                     [null |-> FALSE, labels |-> <<"joy">>])}

InitQuiet ==
  /\ now = StartTick
  /\ tz \in {0, 1}
  /\ users = SeedUsers
  /\ entries \in
       {S \in UpTo({e \in QuietEntries(tz) : e.created_at <= now}, MaxMoods) :
          \A a, b \in S : a.journal_id = b.journal_id => a = b}
  /\ quotes = {}
  /\ summaries = {}
  /\ proc = [p \in Procs |-> Idle]
  /\ nlpLog = {}

SpecQuiet == InitQuiet /\ [][TopNext]_vars

\* ---------------------------------------------- the stored artifacts
\* a quote that an earlier day's request left in the store
SeedQuote ==
  [user_id |-> "o1", quote_date |-> StartDay - 1, title |-> "title",
   quote |-> "q0", author |-> "author", citation |-> "citation",
   explanation |-> "explanation"]

\* the store with a quote and a summary of the day before, and an entry of
\* that day
InitArtifacts ==
  /\ now = StartTick
  /\ tz \in {0, 1}
  /\ users = SeedUsers
  /\ entries = {SeedJournal("o1")}
  /\ quotes = {SeedQuote}
  /\ summaries = {SeedSummary}
  /\ proc = [p \in Procs |-> Idle]
  /\ nlpLog = {}

\* the routes that read or write the artifacts, and the ones that remove or
\* change the entries they were made from
ArtifactRoutes == InsightRoutes \cup {"favourite", "delete"}

\* the journals steps of those routes
ArtifactJournalSteps(p) ==
  \/ \E dbOk \in BOOLEAN : JournalUser(p, dbOk)
  \/ \E dbOk \in BOOLEAN : FavouriteUpdate(p, dbOk)
  \/ \E dbOk \in BOOLEAN : JournalDelete(p, dbOk)

\* Requests of o1 to these routes, one after the other, while time passes
\* and the cron run starts at midnight.
ArtifactsNext ==
  \/ JournalArrives("r1", "token-o1", ArtifactRoutes)
  \/ \E threw \in BOOLEAN : VerifyToken("r1", threw)
  \/ InsightSteps("r1")
  \/ ArtifactJournalSteps("r1")
  \/ Finish("r1")
  \/ Midnight
  \/ CronStep
  \/ Tick

SpecArtifacts == InitArtifacts /\ [][ArtifactsNext]_vars

\* ------------------------------------------------ the edits of an entry
\* the text of the entry the edits aim at: the content that the PUT bodies
\* of RequestsTo carry
EditedContent == "content2"

\* the store as the edits find it: an entry of o1 with its emotions, written
\* the day before
InitEdits ==
  /\ now = StartTick
  /\ tz = 0
  /\ users = SeedUsers
  /\ entries = {[SeedJournal("o1") EXCEPT !.content = EditedContent]}
  /\ quotes = {}
  /\ summaries = {}
  /\ proc = [p \in Procs |-> Idle]
  /\ nlpLog = {}

\* the steps of PUT /journals/:id and of PATCH /journals/:id/favourite
EditSteps(p) ==
  \/ \E dbOk \in BOOLEAN : JournalUser(p, dbOk)
  \/ \E dbOk \in BOOLEAN : PutExisting(p, dbOk)
  \/ \E threw \in BOOLEAN :
       \E reply \in EmotionReplies : JournalEmotion(p, threw, reply)
  \/ \E dbOk \in BOOLEAN : PutUpdate(p, dbOk)
  \/ \E dbOk \in BOOLEAN : FavouriteUpdate(p, dbOk)

\* o1 edits and marks its entry, one request after the other, while time
\* passes
EditsNext ==
  \/ JournalArrives("r1", "token-o1", {"put", "favourite"})
  \/ \E threw \in BOOLEAN : VerifyToken("r1", threw)
  \/ EditSteps("r1")
  \/ Finish("r1")
  \/ Tick
  \/ MidnightTick

SpecEdits == InitEdits /\ [][EditsNext]_vars

\* ----------------------------------------------------- the auth alone
\* the store as the auth requests find it: o1 has signed up, o2 and the
\* third subject have not
InitAuth ==
  /\ now = StartTick
  /\ tz = 0
  /\ users = {u \in SeedUsers : u.firebase_uid = "o1"}
  /\ entries = {}
  /\ quotes = {}
  /\ summaries = {}
  /\ proc = [p \in Procs |-> Idle]
  /\ nlpLog = {}

\* a request to an auth route with token t arrives at slot p
AuthArrives(p, t) ==
  \E r \in RequestsTo(AuthRoutes, {<<"Bearer", t>>}) : Arrive(p, r)

\* Requests of o1 and o2 in one slot and of the third subject in the other,
\* in any interleaving of their steps.
AuthNext ==
  \/ \E t \in {"token-o1", "token-o2"} : AuthArrives("r1", t)
  \/ AuthArrives("r2", "token-ghost")
  \/ \E p \in Requests, threw \in BOOLEAN : VerifyToken(p, threw)
  \/ \E p \in Requests : AuthSteps(p)
  \/ \E p \in Requests : Finish(p)

SpecAuth == InitAuth /\ [][AuthNext]_vars

\* ------------------------------------------------------------- claims
QuoteProcs == {p \in Requests : proc[p].kind = "quote"}
SummaryProcs == {p \in Requests : proc[p].kind = "summary"}

\* the step of handler p out of the await it is at
Steps(p, at) == proc[p].pc = at /\ proc'[p].pc # at

\* C1: whatever the GET /insights/quote requests and their interleaving,
\* daily_quotes holds at most one row per (owner, quote_date).
C1_OneQuotePerOwnerAndDate ==
  \A a, b \in quotes :
    (a.user_id = b.user_id /\ a.quote_date = b.quote_date) => a = b

\* two requests missed the cache, both inserted, one was refused
C1_Witness ==
  \E p \in QuoteProcs :
    /\ proc[p].cause = "unique"
    /\ \E q \in quotes : q.user_id = proc[p].userId /\ q.quote # p

\* C2: the request whose insert hits the (owner, date) conflict re-reads the
\* winning row and answers it with success status.
C2_LoserAnswersWinningRow ==
  \A p \in QuoteProcs :
    (proc[p].pc = "done" /\ proc[p].cause = "unique") =>
      /\ proc[p].resp.status = 200
      /\ \E q \in quotes :
           /\ q.user_id = proc[p].userId
           /\ proc[p].resp.body \in {CachedColumns(q), StoredColumns(q)}

\* C3: a call that generated and stored the quote of (O, D) and a later call
\* for O on D that is served from the cache answer the same payload.
C3_SamePayloadTwice ==
  \A p, q \in QuoteProcs :
    ( /\ proc[p].pc = "done" /\ proc[q].pc = "done"
      /\ p \in proc[q].after
      /\ proc[p].userId = proc[q].userId
      /\ proc[p].wrote /\ proc[p].resp.status = 200
      /\ proc[p].readDate = proc[p].insertDate
      /\ proc[q].hit /\ proc[q].lookupDate = proc[p].insertDate )
    => proc[q].resp.body = proc[p].resp.body

\* C4: a lookup that finds a row for (owner, today) answers that row, calls
\* the NLP service not at all and writes nothing.
C4_CacheHitAnswersTheRow ==
  [][\A p \in Requests :
       LET rows == {q \in quotes : /\ q.user_id = proc[p].userId
                                   /\ q.quote_date = StoreDate(now)} IN
       (Steps(p, "q_lookup") /\ rows # {}) =>
         /\ proc'[p].pc = "done"
         /\ quotes' = quotes
         /\ nlpLog' = nlpLog
         /\ \/ proc'[p].cause = "store" /\ proc'[p].resp.status = 500
            \/ /\ proc'[p].resp.status = 200
               /\ \E q \in rows : proc'[p].resp.body = CachedColumns(q)]_vars

C4_Witness ==
  \E p \in QuoteProcs :
    /\ proc[p].pc = "done" /\ proc[p].hit
    /\ proc[p].resp.status = 200 /\ proc[p].resp.body.quote \in Requests

\* C5: with no quote of today and no entry of the owner in the last 7 days
\* the answer is the sentinel with success status, the NLP service is not
\* called and no row is written.
C5_EmptyWindowSentinel ==
  [][\A p \in Requests :
       LET rows == {e \in entries : /\ e.user_id = proc[p].userId
                                    /\ e.created_at >= proc[p].since} IN
       (Steps(p, "q_entries") /\ rows = {}) =>
         /\ proc'[p].pc = "done"
         /\ proc'[p].resp = [status |-> 200, body |-> QuoteSentinel]
         /\ quotes' = quotes
         /\ nlpLog' = nlpLog]_vars

\* the owner has nothing in the window while another owner has
C5_Witness ==
  \E p \in QuoteProcs :
    /\ proc[p].pc = "done" /\ proc[p].nlp = "skipped"
    /\ proc[p].cause = "none"
    /\ proc[p].resp = [status |-> 200, body |-> QuoteSentinel]
    /\ entries # {}

\* C6: a failed or quote-less NLP reply is answered with the sentinel and
\* success status and leaves no row; it is not remembered: a later request
\* that does get a quote stores it and answers it.
C6_FailureIsNotCached ==
  /\ \A q \in quotes : q.quote # Undefined
  /\ \A p \in QuoteProcs :
       proc[p].nlp \in {"threw", "unusable"} =>
         /\ proc[p].pc = "done"
         /\ proc[p].resp = [status |-> 200, body |-> QuoteSentinel]
         /\ ~proc[p].wrote
  /\ \A p, q \in QuoteProcs :
       ( /\ proc[p].pc = "done" /\ proc[q].pc = "done"
         /\ p \in proc[q].after
         /\ proc[p].userId = proc[q].userId
         /\ proc[p].nlp \in {"threw", "unusable"}
         /\ proc[q].nlp = "ok" /\ proc[q].cause = "none"
         /\ proc[q].readDate = proc[q].insertDate )
       => /\ proc[q].wrote
          /\ proc[q].resp.status = 200
          /\ proc[q].resp.body.quote = q
          /\ \E r \in quotes : /\ r.user_id = proc[q].userId
                               /\ r.quote_date = proc[q].insertDate
                               /\ proc[q].resp.body = StoredColumns(r)

\* a request failed, the next one of the same owner on the same day asked
\* the NLP service again and stored what it got
C6_Witness ==
  \E p, q \in QuoteProcs :
    /\ proc[p].pc = "done" /\ proc[q].pc = "done"
    /\ p \in proc[q].after
    /\ proc[p].userId = proc[q].userId
    /\ proc[p].nlp \in {"threw", "unusable"}
    /\ proc[q].lookupDate = proc[p].lookupDate
    /\ proc[q].nlp = "ok" /\ proc[q].wrote
    /\ <<q, "quote", proc[q].userId>> \in nlpLog
    /\ proc[q].resp.status = 200

\* C7: whatever the GET /insights/summary requests and cron runs and their
\* interleaving, daily_summaries holds at most one row per (owner,
\* summary_date).
C7_OneSummaryPerOwnerAndDate ==
  \A a, b \in summaries :
    (a.user_id = b.user_id /\ a.summary_date = b.summary_date) => a = b

\* a request and the cron run both passed the existence check; the cron run
\* inserted first and the request's insert was refused
C7_Witness ==
  \E p \in SummaryProcs :
    /\ proc[p].cause = "unique"
    /\ \E r \in summaries : /\ r.user_id = proc[p].userId
                            /\ r.summary_date = proc[p].today
                            /\ r.summary = Cron

\* C8: an error or an unusable reply of the NLP summarizer never makes
\* GET /insights/summary answer 500, whatever the owner's summaries.
C8_NlpFailureNeverAnswers500 ==
  \A p \in SummaryProcs :
    ( /\ proc[p].pc = "done"
      /\ proc[p].nlp \in {"threw", "unusable"}
      /\ proc[p].cause # "store" )
    => proc[p].resp.status # 500

\* C9: the most recent summary is of an earlier day and the owner has no
\* entry in the last 7 days: the answer is that summary, unchanged, with
\* success status; the NLP service is not called and nothing is written.
C9_StaleSummaryOnEmptyWindow ==
  [][\A p \in Requests :
       LET rows == {e \in entries : /\ e.user_id = proc[p].userId
                                    /\ e.created_at >= proc[p].since} IN
       ( /\ Steps(p, "s_entries")
         /\ proc[p].recent # <<>>
         /\ proc[p].recent[1].summary_date < proc[p].today
         /\ rows = {} )
       => /\ proc'[p].pc = "done"
          /\ summaries' = summaries
          /\ nlpLog' = nlpLog
          /\ \/ proc'[p].cause = "store" /\ proc'[p].resp.status = 500
             \/ proc'[p].resp =
                  [status |-> 200, body |-> SummaryBody(proc[p].recent[1])]]_vars

C9_Witness ==
  \E p \in SummaryProcs :
    /\ proc[p].pc = "done" /\ proc[p].nlp = "no_entries"
    /\ proc[p].recent = <<SeedSummary>>
    /\ SeedSummary.summary_date < proc[p].today
    /\ proc[p].resp = [status |-> 200, body |-> SummaryBody(SeedSummary)]
    /\ entries # {}

\* C10: the most recent summary is of an earlier day, the owner has entries
\* in the last 7 days and the generation for today left no row: the answer
\* is the most recent summary, with success status.
C10_StaleSummaryOnSilentFailure ==
  [][\A p \in Requests :
       LET rows == {r \in summaries : /\ r.user_id = proc[p].userId
                                      /\ r.summary_date = proc[p].today} IN
       ( /\ Steps(p, "s_new")
         /\ proc[p].recent # <<>>
         /\ proc[p].recent[1].summary_date < proc[p].today
         /\ rows = {} )
       => /\ proc'[p].pc = "done"
          /\ summaries' = summaries
          /\ \/ proc'[p].cause = "store" /\ proc'[p].resp.status = 500
             \/ proc'[p].resp =
                  [status |-> 200, body |-> SummaryBody(proc[p].recent[1])]]_vars

C10_Witness ==
  \E p \in SummaryProcs :
    /\ proc[p].pc = "done" /\ proc[p].nlp = "threw"
    /\ proc[p].recent = <<SeedSummary>>
    /\ SeedSummary.summary_date < proc[p].today
    /\ summaries = {SeedSummary}
    /\ proc[p].resp = [status |-> 200, body |-> SummaryBody(SeedSummary)]

C12_NoSummaryNoEntriesSentinel ==
  [][\A p \in Requests :
       LET rows == {e \in entries : /\ e.user_id = proc[p].userId
                                    /\ e.created_at >= proc[p].since} IN
       ( /\ Steps(p, "s_entries")
         /\ proc[p].recent = <<>>
         /\ rows = {} )
       => /\ proc'[p].pc = "done"
          /\ summaries' = summaries
          /\ nlpLog' = nlpLog
          /\ \/ proc'[p].cause = "store" /\ proc'[p].resp.status = 500
             \/ proc'[p].resp = [status |-> 200, body |-> SummarySentinel]]_vars

\* the owner has neither while another owner has an entry
C12_Witness ==
  \E p \in SummaryProcs :
    /\ proc[p].pc = "done" /\ proc[p].nlp = "no_entries"
    /\ proc[p].recent = <<>> /\ proc[p].cause = "none"
    /\ proc[p].resp = [status |-> 200, body |-> SummarySentinel]
    /\ <<p, "daily-summary", proc[p].userId>> \notin nlpLog
    /\ entries # {}

\* the owners of a sequence
Range(f) == {f[i] : i \in DOMAIN f}

OwnersOfLocalYesterday ==
  {e.user_id : e \in {x \in entries :
                        StoreDate(x.created_at) = StoreDate(now) - 1}}
OwnersOfUtcYesterday ==
  {e.user_id : e \in {x \in entries :
                        AppDate(x.created_at) = AppDate(now) - 1}}

\* C14: the owners a cron run finds, and so attempts, are exactly the owners
\* with an entry created on the previous calendar day.
C14_RunTakesYesterdaysOwners ==
  [][(Steps(Cron, "c_users") /\ proc'[Cron].pc = "c_loop") =>
       proc'[Cron].found \in {OwnersOfLocalYesterday, OwnersOfUtcYesterday}]_vars

\* C15: the generation routine, called for an (owner, date) that has its
\* row, returns after the existence check: it goes on neither to the
\* entries nor to the NLP service nor to the insert, and the store is as
\* it was.
C15_ExistingRowMakesNoOp ==
  [][\A p \in Procs :
       LET rows == {r \in summaries : /\ r.user_id = proc[p].userId
                                      /\ r.summary_date = proc[p].today} IN
       (Steps(p, "g_exist") /\ rows # {}) =>
         /\ proc'[p].pc \in {"s_new", "c_loop", "done"}
         /\ proc'[p].pc = "done" =>
              proc'[p].cause = "store" /\ proc'[p].resp.status = 500
         /\ summaries' = summaries
         /\ nlpLog' = nlpLog]_vars

\* the cron run stored the row of the day; the generation that a request
\* had asked for returned at the existence check
C15_Witness ==
  \E p \in SummaryProcs :
    /\ proc[p].pc = "s_new" /\ proc[p].nlp = "none" /\ ~proc[p].wrote
    /\ <<p, "daily-summary", proc[p].userId>> \notin nlpLog
    /\ \E r \in summaries : /\ r.user_id = proc[p].userId
                            /\ r.summary_date = proc[p].today
                            /\ r.summary = Cron

\* the request answered by the emotionTrends query succeeding
TrendsAnswered(p) == Steps(p, "t_query") /\ proc'[p].resp.status = 200

RowTotal(r) == r.positive + r.negative + r.ambiguous

RECURSIVE TotalOf(_, _)
TotalOf(rows, n) ==
  IF n = 0 THEN 0 ELSE RowTotal(rows[n]) + TotalOf(rows, n - 1)

\* the days before the store's today on which t lies
DaysBack(t) == CURRENT_DATE - StoreDate(t)

\* C16: every (entry, emotion) pair of the owner created within the 30-day
\* window (here: after its first instant, whatever the time of day) is
\* joined to exactly one of the seven buckets, and the counts answered
\* account for all those pairs.
C16_EveryPairInOneBucket ==
  [][\A p \in Requests :
       TrendsAnswered(p) =>
         LET pairs == {ce \in UnnestedEmotions(proc[p].userId) :
                         ce.created_at > DateMinus(30)}
             rows == proc'[p].resp.body.emotionTrends IN
         /\ \A ce \in pairs :
              Cardinality({k \in DOMAIN TrendDays :
                             JoinsDay(TrendDays[k], ce.created_at)}) = 1
         /\ TotalOf(rows, Len(rows)) >= Cardinality(pairs)]_vars

\* the (entry, emotion) pairs of owner o written n days back, of category c
PairsBack(o, n, c) ==
  {ce \in UnnestedEmotions(o) :
     DaysBack(ce.created_at) = n /\ Category(ce.emotion) = c}

\* C17: with the owner's entries written 0, 3, 7 and 12 days ago they are
\* counted in the buckets 1, 5, 10 and 15, and the other buckets are zero.
C17_OffsetsToBuckets ==
  [][\A p \in Requests :
       LET o == proc[p].userId
           rows == proc'[p].resp.body.emotionTrends
           back == <<0, 3, 7, 12>> IN
       ( /\ TrendsAnswered(p)
         /\ \A e \in entries :
              e.user_id = o => DaysBack(e.created_at) \in {0, 3, 7, 12} )
       => /\ Len(rows) = 7
          /\ \A k \in 1 .. 4 :
               /\ rows[k].positive = Cardinality(PairsBack(o, back[k], "positive"))
               /\ rows[k].negative = Cardinality(PairsBack(o, back[k], "negative"))
               /\ rows[k].ambiguous = Cardinality(PairsBack(o, back[k], "ambiguous"))
          /\ \A k \in 5 .. 7 : RowTotal(rows[k]) = 0
          /\ <<rows[1].day, rows[2].day, rows[3].day, rows[4].day>>
               = <<"1", "5", "10", "15">>]_vars

\* entries of 3 and of 12 days ago, not written at midnight, are in the
\* buckets 5 and 15
C17_Witness ==
  \E p \in Requests :
    /\ proc[p].pc = "done" /\ proc[p].kind = "trends"
    /\ proc[p].resp.status = 200
    /\ \E a, b \in entries :
         /\ a.user_id = proc[p].userId /\ b.user_id = proc[p].userId
         /\ DaysBack(a.created_at) = 3 /\ DaysBack(b.created_at) = 12
         /\ a.created_at # DateMinus(3) /\ b.created_at # DateMinus(12)
    /\ RowTotal(proc[p].resp.body.emotionTrends[2]) = 2
    /\ RowTotal(proc[p].resp.body.emotionTrends[4]) = 2
    /\ RowTotal(proc[p].resp.body.emotionTrends[1]) = 0

\* C18: the answer of emotionTrends has the seven buckets 1, 5, 10, 15, 20,
\* 25, 30 in this order, each with the counts positive, negative and
\* ambiguous, whatever the entries; without entries of the owner all counts
\* are 0; the status is 200 whenever the queries succeed.
C18_SevenBucketsAlways ==
  [][\A p \in Requests :
       Steps(p, "t_query") =>
         /\ proc'[p].pc = "done"
         /\ \/ proc'[p].cause = "store" /\ proc'[p].resp.status = 500
            \/ LET rows == proc'[p].resp.body.emotionTrends IN
               /\ proc'[p].resp.status = 200
               /\ DOMAIN proc'[p].resp.body = {"emotionTrends"}
               /\ Len(rows) = 7
               /\ [k \in 1 .. 7 |-> rows[k].day]
                    = <<"1", "5", "10", "15", "20", "25", "30">>
               /\ \A k \in 1 .. 7 :
                    /\ DOMAIN rows[k] = {"day", "positive", "negative", "ambiguous"}
                    /\ rows[k].positive \in Nat
                    /\ rows[k].negative \in Nat
                    /\ rows[k].ambiguous \in Nat
               /\ (\A e \in entries : e.user_id # proc[p].userId) =>
                    \A k \in 1 .. 7 : RowTotal(rows[k]) = 0]_vars

\* the owner has no entry, another owner has one of today
C18_Witness ==
  \E p \in Requests :
    /\ proc[p].pc = "done" /\ proc[p].kind = "trends"
    /\ proc[p].resp.status = 200
    /\ entries # {}
    /\ \A e \in entries : e.user_id # proc[p].userId
    /\ Len(proc[p].resp.body.emotionTrends) = 7
    /\ TotalOf(proc[p].resp.body.emotionTrends, 7) = 0

\* C19: in every bucket positive counts the pairs whose label is in the
\* positive list, negative those in the negative list and ambiguous all
\* others, so the three add up to the pairs joined to the bucket; an entry
\* of today with gratitude and joy as the owner's only entry gives bucket 1
\* positive = 2, negative = 0, ambiguous = 0.
C19_OneCategoryPerPair ==
  [][\A p \in Requests :
       TrendsAnswered(p) =>
         LET o == proc[p].userId
             rows == proc'[p].resp.body.emotionTrends
             joined(k) == {ce \in UnnestedEmotions(o) :
                             JoinsDay(TrendDays[k], ce.created_at)} IN
         /\ \A k \in DOMAIN rows :
              /\ rows[k].positive =
                   Cardinality({ce \in joined(k) : ce.emotion \in PositiveEmotions})
              /\ rows[k].negative =
                   Cardinality({ce \in joined(k) : ce.emotion \in NegativeEmotions})
              /\ rows[k].ambiguous =
                   Cardinality({ce \in joined(k) :
                      ce.emotion \notin PositiveEmotions \cup NegativeEmotions})
              /\ RowTotal(rows[k]) = Cardinality(joined(k))
         /\ ( \E e \in entries :
                /\ {x \in entries : x.user_id = o} = {e}
                /\ DaysBack(e.created_at) = 0
                /\ e.emotions = <<"gratitude", "joy">> )
            => rows[1] = [day |-> "1", positive |-> 2,
                          negative |-> 0, ambiguous |-> 0]]_vars

\* an entry of today with gratitude and joy and one with anger and surprise
C19_Witness ==
  \E p \in Requests :
    /\ proc[p].pc = "done" /\ proc[p].kind = "trends"
    /\ proc[p].resp.status = 200
    /\ \E e \in entries : /\ e.user_id = proc[p].userId
                          /\ DaysBack(e.created_at) = 0
                          /\ e.emotions = <<"gratitude", "joy">>
    /\ proc[p].resp.body.emotionTrends[1] =
         [day |-> "1", positive |-> 2, negative |-> 1, ambiguous |-> 1]

\* the number a decimal text stands for
NumberOf(text) == CHOOSE n \in 0 .. 99 : ToString(n) = text

\* C20: topEmotions answers min(5, number of distinct labels in the 30-day
\* window) items, one per label, each with the number of occurrences of its
\* label, in the order of non-increasing count, and no label left out
\* occurs more often than one returned; without any label the answer is the
\* message and no list.
C20_TopFiveByCount ==
  [][\A p \in Requests :
       (Steps(p, "e_query") /\ proc'[p].resp.status = 200) =>
         LET o == proc[p].userId
             pairs == UNION {{<<e, i>> : i \in DOMAIN e.emotions} :
                             e \in {x \in entries :
                                      /\ x.user_id = o
                                      /\ x.created_at >= DateMinus(30)}}
             labels == {pr[1].emotions[pr[2]] : pr \in pairs}
             occ(l) == Cardinality({pr \in pairs : pr[1].emotions[pr[2]] = l})
             body == proc'[p].resp.body IN
         IF labels = {} THEN body = TopNothing
         ELSE LET rows == body.topEmotions
                  n == Cardinality(labels) IN
              /\ Len(rows) = IF n < 5 THEN n ELSE 5
              /\ \A j, k \in DOMAIN rows :
                   /\ rows[k].emotion \in labels
                   /\ NumberOf(rows[k].count) = occ(rows[k].emotion)
                   /\ j < k => /\ rows[j].emotion # rows[k].emotion
                               /\ NumberOf(rows[j].count) >= NumberOf(rows[k].count)
              /\ \A l \in labels \ {rows[k].emotion : k \in DOMAIN rows} :
                   \A k \in DOMAIN rows : occ(l) <= NumberOf(rows[k].count)]_vars

\* six labels in the window: five are answered, joy and fear first
C20_Witness ==
  \E p \in Requests :
    /\ proc[p].pc = "done" /\ proc[p].kind = "top"
    /\ proc[p].resp.status = 200
    /\ Cardinality(LabelsOf(proc[p].userId)) = 6
    /\ Len(proc[p].resp.body.topEmotions) = 5
    /\ proc[p].resp.body.topEmotions[1] = [emotion |-> "joy", count |-> "2"]
    /\ proc[p].resp.body.topEmotions[3].count = "1"

\* C21: when the owner has no entry with created_at >= CURRENT_DATE - 30
\* days, topEmotions answers 200 with the message 'No journal entries found
\* in the last 30 days'; and no answer carries an empty topEmotions list.
C21_EmptyWindowMessage ==
  [][\A p \in Requests :
       Steps(p, "e_query") =>
         LET o == proc[p].userId
             body == proc'[p].resp.body
             window == {e \in entries : /\ e.user_id = o
                                        /\ e.created_at >= DateMinus(30)} IN
         /\ (window = {} /\ proc'[p].cause # "store") =>
              /\ proc'[p].resp.status = 200
              /\ body = TopNothing
         /\ "topEmotions" \in DOMAIN body => Len(body.topEmotions) > 0]_vars

\* the owner's only entries are older than the window (another owner has
\* one inside it): the message is answered
C21_Witness ==
  \E p \in Requests :
    /\ proc[p].pc = "done" /\ proc[p].kind = "top"
    /\ proc[p].resp = [status |-> 200, body |-> TopNothing]
    /\ \E e \in entries : e.user_id = proc[p].userId
    /\ \E e \in entries : e.user_id # proc[p].userId
                          /\ e.created_at >= DateMinus(30)
    /\ \A e \in entries : e.user_id = proc[p].userId
                            => e.created_at < DateMinus(30)

\* C22: a request to any route (journals, insights, auth) whose header has
\* no token is answered 401 on arrival, and one whose token the verification
\* rejects is answered 401 by the middleware; in both cases no handler is
\* entered, the store is unchanged and no call goes to the classifier or the
\* NLP service.  A handler is entered only with a token that verifies, as
\* the subject of that token.
C22_BadCredentialStopsAtTheGate ==
  [][\A p \in Requests :
       (proc[p].pc \in {"idle", "v_token"} /\ proc'[p] # proc[p]) =>
         LET token == TokenOf(proc[p].req.header) IN
         /\ UNCHANGED <<users, entries, quotes, summaries, nlpLog>>
         /\ proc[p].pc = "idle" =>
              IF Falsy(TokenOf(proc'[p].req.header))
                THEN /\ proc'[p].pc = "done" /\ proc'[p].kind = "idle"
                     /\ proc'[p].resp = [status |-> 401, body |-> NoToken]
              ELSE proc'[p].pc = "v_token" /\ proc'[p].kind = "idle"
         /\ (proc[p].pc = "v_token" /\ token \notin Tokens) =>
              /\ proc'[p].pc = "done" /\ proc'[p].kind = "idle"
              /\ proc'[p].resp = [status |-> 401, body |-> InvalidToken]
         /\ (proc[p].pc = "v_token" /\ proc'[p].kind # "idle") =>
              /\ token \in Tokens
              /\ proc'[p].uid = Decoded(token)]_vars

\* a POST /journals with a well-formed body and a token that does not verify
\* has been answered 401, nothing written, nobody called
C22_Witness ==
  \E p \in Requests :
    /\ proc[p].pc = "done" /\ proc[p].kind = "idle"
    /\ proc[p].resp = [status |-> 401, body |-> InvalidToken]
    /\ proc[p].req.route = "post"
    /\ proc[p].req.header = <<"Bearer", "garbage">>
    /\ ~Falsy(proc[p].req.title) /\ ~Falsy(proc[p].req.content)
    /\ entries = {SeedJournal(o) : o \in Owners}
    /\ nlpLog = {}

\* the handlers that look the caller up in users before anything else
OwnerHandlers == {"quote", "summary", "trends", "top"} \cup JournalRoutes

\* C23 as stated: every request to an insights or journals route with a
\* valid credential of a subject without a users row is answered 404 (the
\* failure of the lookup itself aside).
C23_NoRowAlways404 ==
  [][\A p \in Requests :
       (/\ proc'[p].kind \in OwnerHandlers /\ proc'[p].uid = Ghost
        /\ proc[p].pc # "done" /\ proc'[p].pc = "done"
        /\ proc'[p].cause # "store") =>
         proc'[p].resp.status = 404]_vars

\* C23, amended: such a request writes to no table and calls neither the
\* classifier nor the NLP service, and it never gets past the lookup of the
\* user; it is answered 404 'User not found' unless the test of the body,
\* which comes first, has answered 400 (POST and PUT without title or
\* content, PATCH favourite without a boolean) or the lookup fails (500).
C23_NoRowNoEffect ==
  [][\A p \in Requests :
       (/\ proc'[p].kind \in OwnerHandlers /\ proc'[p].uid = Ghost
        /\ proc'[p] # proc[p]) =>
         /\ UNCHANGED <<users, entries, quotes, summaries, nlpLog>>
         /\ proc'[p].pc \in {"q_user", "s_user", "t_user", "e_user", "j_user",
                             "done"}
         /\ (proc'[p].pc = "done" /\ proc'[p].cause \notin {"store", "body"})
              => proc'[p].resp = [status |-> 404, body |-> UserNotFound]
         /\ (proc'[p].pc = "done" /\ proc'[p].cause = "body")
              => /\ proc'[p].resp.status = 400
                 /\ proc[p].pc = "v_token"
                 /\ \/ /\ proc'[p].kind \in {"post", "put"}
                       /\ \/ Falsy(proc[p].req.title)
                          \/ Falsy(proc[p].req.content)
                    \/ /\ proc'[p].kind = "favourite"
                       /\ proc[p].req.favourite.type # "boolean"]_vars

\* a DELETE of an existing entry by a subject without a users row has been
\* answered 404 and the entry is still there
C23_Witness ==
  \E p \in Requests :
    /\ proc[p].pc = "done" /\ proc[p].kind = "delete"
    /\ proc[p].uid = Ghost
    /\ proc[p].resp = [status |-> 404, body |-> UserNotFound]
    /\ entries = {SeedJournal(o) : o \in Owners}
    /\ nlpLog = {}

\* C24: when the classifier call fails during a POST /journals with title and
\* content of an owner that exists, the handler goes on to the insert with
\* null emotions (and the request is not answered with an error).
C24_ClassifierFailureStillStores ==
  [][\A p \in Requests :
       (/\ Steps(p, "j_emotion") /\ proc[p].kind = "post"
        /\ proc'[p].nlp = "threw") =>
         /\ proc'[p].pc = "jp_insert"
         /\ proc'[p].payload.null]_vars

\* C25: every stored journal entry has a non-empty title and a non-empty
\* content; a POST /journals or PUT /journals/:id that gets to its handler
\* with a missing or empty title or content is answered 400 there and then,
\* with nothing written and the classifier not called.
C25_TitleAndContentNeverEmpty ==
  /\ \A e \in entries : ~Falsy(e.title) /\ ~Falsy(e.content)
  /\ [][/\ \A e \in entries' : ~Falsy(e.title) /\ ~Falsy(e.content)
        /\ \A p \in Requests :
             (/\ Steps(p, "v_token") /\ proc'[p].kind \in {"post", "put"}
              /\ Falsy(proc[p].req.title) \/ Falsy(proc[p].req.content)) =>
               /\ proc'[p].pc = "done"
               /\ proc'[p].resp = [status |-> 400, body |-> MissingFields]
               /\ UNCHANGED <<entries, nlpLog>>]_vars

\* after a POST of o1 has stored an entry, a PUT on it without content has
\* been answered 400: the entry is as it was stored and nobody was called
C25_Witness ==
  \E p \in Requests :
    /\ proc[p].pc = "done" /\ proc[p].kind = "put"
    /\ proc[p].resp = [status |-> 400, body |-> MissingFields]
    /\ \E e \in entries : /\ e.user_id = "o1" /\ e.user_id = proc[p].uid
                          /\ e.title = "title" /\ e.content = "content"
                          /\ e.updated_at = 0
    /\ \A c \in nlpLog : c[1] # p

\* the awaits of the journals handlers
JournalPcs ==
  {"j_user", "jl_rows", "ju_exist", "j_emotion", "jp_insert", "ju_update",
   "jf_update", "jd_delete"}

\* C26: no step of a journals handler run for one user changes, removes or
\* adds an entry of another user; GET /journals answers exactly the entries
\* of the authenticated user; PUT, PATCH favourite and DELETE aimed at an
\* entry of another user answer 404 'Journal entry not found or access
\* denied' and leave the store as it is; and an answer that names an entry
\* names one of the caller's own.
C26_OwnerIsolation ==
  [][\A p \in Requests :
       (proc[p].pc \in JournalPcs /\ proc'[p] # proc[p]) =>
         LET me == proc[p].uid
             foreign == {e \in entries : e.journal_id = proc[p].req.id
                                         /\ e.user_id # me}
             body == proc'[p].resp.body IN
         /\ {e \in entries : e.user_id # me}
              = {e \in entries' : e.user_id # me}
         /\ (Steps(p, "jl_rows") /\ proc'[p].resp.status = 200) =>
              /\ Range(body.rows) = {e \in entries : e.user_id = me}
              /\ Len(body.rows) = Cardinality(Range(body.rows))
         /\ (/\ proc[p].pc \in {"ju_exist", "jf_update", "jd_delete"}
             /\ foreign # {} /\ proc'[p].cause # "store") =>
              /\ proc'[p].pc = "done"
              /\ proc'[p].resp = [status |-> 404, body |-> EntryNotFound]
              /\ entries' = entries
         /\ (proc'[p].pc = "done" /\ "journal_id" \in DOMAIN body) =>
              \E e \in entries \cup entries' :
                e.journal_id = body.journal_id /\ e.user_id = me]_vars

\* o1, who has an entry of its own, has aimed a DELETE at the entry of o2 and
\* got 404; the entry of o2 is untouched
C26_Witness ==
  \E p \in Requests :
    /\ proc[p].pc = "done" /\ proc[p].kind = "delete" /\ proc[p].uid = "o1"
    /\ proc[p].req.id = SeedJournal("o2").journal_id
    /\ proc[p].resp = [status |-> 404, body |-> EntryNotFound]
    /\ SeedJournal("o2") \in entries
    /\ \E e \in entries : e.user_id = "o1"

\* the rows that a signup as uid with request r collides with
SameUser(uid, r) ==
  {u \in users : \/ u.firebase_uid = uid
                 \/ u.email = r.email
                 \/ u.username = r.username}

\* C27: a signup that finds a user with its firebase_uid, email or username
\* is answered 400 'User already exists' and adds no row; one that found
\* none but meets such a row at its insert (a concurrent signup won) is
\* answered 400 'Username or email already exists', not 500, and adds no
\* row; a signup that succeeds adds one row; and in every reachable state no
\* two users rows share an email.
C27_SignupRefusesDuplicates ==
  /\ [](\A u, v \in users : u.email = v.email => u = v)
  /\ [][\A p \in Requests :
          (proc[p].kind = "signup" /\ proc'[p] # proc[p]
           /\ proc[p].pc # "done") =>
            /\ (/\ proc[p].pc = "s_exist" /\ proc'[p].cause # "store"
                /\ SameUser(proc[p].uid, proc[p].req) # {}) =>
                 proc'[p].resp = [status |-> 400, body |-> UserExists]
            /\ (/\ proc[p].pc = "s_insert" /\ proc'[p].cause # "store"
                /\ SameUser(proc[p].uid, proc[p].req) # {}) =>
                 proc'[p].resp = [status |-> 400, body |-> KeyExists]
            /\ proc'[p].resp.status = 201 =>
                 /\ SameUser(proc[p].uid, proc[p].req) = {}
                 /\ Cardinality(users') = Cardinality(users) + 1
                 /\ users \subseteq users'
            /\ proc'[p].resp.status # 201 => users' = users]_vars

\* two subjects have signed up with the same email at the same time: one row
\* has it, the other signup has been answered 400 at its insert
C27_Witness ==
  \E p \in Requests :
    /\ proc[p].pc = "done" /\ proc[p].kind = "signup"
    /\ proc[p].resp = [status |-> 400, body |-> KeyExists]
    /\ \E u \in users : /\ u.email = <<"new", "example.com">>
                        /\ u.firebase_uid # proc[p].uid
    /\ \A u \in users : u.firebase_uid # proc[p].uid

\* C28: a call of POST /auth/google for a subject that has no users row goes
\* on to create one, and the insert adds one row and answers 201 'User
\* created successfully'; a call for a subject that has a row, with the email
\* of that row, answers 200 'Login successful' with that row and adds none
\* (the failure of a statement itself aside).
C28_GoogleGetOrCreate ==
  [][\A p \in Requests :
       (proc[p].kind = "google" /\ proc'[p] # proc[p]
        /\ proc[p].pc # "done" /\ proc'[p].cause # "store") =>
         /\ (proc[p].pc = "o_exist" /\ UsersOf(proc[p].uid) = {}) =>
              proc'[p].pc = "o_insert"
         /\ proc[p].pc = "o_insert" =>
              /\ proc'[p].resp.status = 201
              /\ proc'[p].resp.body.message = "User created successfully"
              /\ users' = users \cup {proc'[p].resp.body.user}
              /\ Cardinality(users') = Cardinality(users) + 1
         /\ (/\ proc[p].pc = "o_exist"
             /\ \E u \in UsersOf(proc[p].uid) : u.email = proc[p].req.email) =>
              /\ proc'[p].pc = "o_touch"
              /\ proc'[p].recent[1] \in UsersOf(proc[p].uid)
         /\ proc[p].pc = "o_touch" =>
              /\ proc'[p].resp.status = 200
              /\ proc'[p].resp.body.message = "Login successful"
              /\ Cardinality(users') = Cardinality(users)]_vars

\* C29: the user object in an answer of POST /auth/signup, POST /auth/google
\* or GET /auth/verify has no firebase_uid field (the stored row has one).
C29_NoSubjectInAnswers ==
  \A p \in Requests :
    (/\ proc[p].pc = "done" /\ proc[p].kind \in AuthRoutes
     /\ "user" \in DOMAIN proc[p].resp.body) =>
      /\ "firebase_uid" \notin DOMAIN proc[p].resp.body.user
      /\ \A u \in users : "firebase_uid" \in DOMAIN u

\* C30: every GET /insights/quote, GET /insights/summary and POST /journals
\* request that has entered its handler is answered in the end, whether or
\* not the classifier or the NLP service ever replies.
C30_EveryRequestAnswered ==
  \A p \in Requests :
    (proc[p].kind \in {"quote", "summary", "post"}) ~> (proc[p].pc = "done")

\* C31: in GET /insights/quote the row's quote_date is the store's calendar
\* date at the insert, and a request that comes after a request of the same
\* owner stored a quote, and whose lookup falls on that store date, is a
\* cache hit, also while the application's clock shows another date.
C31_StoreDateEverywhere ==
  /\ [](\A p, q \in QuoteProcs :
          ( /\ p \in proc[q].after
            /\ proc[p].userId = proc[q].userId
            /\ proc[p].wrote
            /\ proc[q].lookupDate = proc[p].insertDate )
          => /\ proc[q].hit
             /\ proc[q].resp.status = 200
             /\ proc[q].resp.body.quote = p)
  /\ [][\A p \in Requests :
          (Steps(p, "q_insert") /\ quotes' # quotes) =>
            \A r \in quotes' \ quotes :
              /\ r.user_id = proc[p].userId
              /\ r.quote_date = (now + tz) \div TicksPerDay]_vars

\* the quote was stored while the application's date was a day behind the
\* store's, and is a hit for the next request on that store date
C31_Witness ==
  \E p, q \in QuoteProcs :
    /\ p \in proc[q].after
    /\ proc[p].userId = proc[q].userId
    /\ proc[p].wrote /\ proc[q].hit
    /\ proc[q].lookupDate = proc[p].insertDate
    /\ proc[p].insertDate # AppDate(now)
    /\ proc[q].lookupDate = CURRENT_DATE


\* C32: a GET /insights/quote request that stored a quote and whose read-back
\* did not fail answers the row of its owner and insert date, also when the
\* store's date rolls over between the insert and the read-back.
C32_ReadBackAnswersStoredRow ==
  \A p \in QuoteProcs :
    (proc[p].pc = "done" /\ proc[p].wrote /\ proc[p].cause = "none") =>
      /\ proc[p].resp.status = 200
      /\ \E q \in quotes :
           /\ q.user_id = proc[p].userId
           /\ q.quote_date = proc[p].insertDate
           /\ proc[p].resp.body = StoredColumns(q)


\* C33: no step of any request or of the cron run removes or changes a
\* daily_quotes or daily_summaries row: each step leaves both tables as
\* they were or adds one row, of a key that had none.
C33_ArtifactsOnlyAdded ==
  [][/\ quotes \subseteq quotes'
     /\ summaries \subseteq summaries'
     /\ \A q \in quotes' \ quotes :
          ~\E x \in quotes :
             x.user_id = q.user_id /\ x.quote_date = q.quote_date
     /\ \A s \in summaries' \ summaries :
          ~\E x \in summaries :
             x.user_id = s.user_id /\ x.summary_date = s.summary_date]_vars

\* the quote and the summary of the day before are still there beside the
\* ones of a later date
C33_Witness ==
  /\ SeedQuote \in quotes
  /\ \E q \in quotes :
       q.user_id = SeedQuote.user_id /\ q.quote_date > SeedQuote.quote_date
  /\ SeedSummary \in summaries
  /\ \E s \in summaries :
       /\ s.user_id = SeedSummary.user_id
       /\ s.summary_date > SeedSummary.summary_date


\* C34: a GET /insights/summary request whose most recent summary is of the
\* request's today answers that row (or 500 on a store error), never
\* reaches the NLP summarizer and writes nothing, however many requests
\* there are that day.
C34_TodaysSummaryIsServedAsIs ==
  \A p \in SummaryProcs :
    (proc[p].recent # <<>> /\ proc[p].recent[1].summary_date = proc[p].today)
    => /\ proc[p].pc \notin {"g_entries", "g_nlp", "g_insert"}
       /\ ~proc[p].wrote
       /\ proc[p].nlp \in {"none", "no_entries"}
       /\ <<p, "daily-summary", proc[p].userId>> \notin nlpLog
       /\ proc[p].pc = "done" =>
            \/ proc[p].cause = "store" /\ proc[p].resp.status = 500
            \/ proc[p].resp =
                 [status |-> 200, body |-> SummaryBody(proc[p].recent[1])]

\* one request generated today's summary, the next one of the same owner
\* answered it; the host is ahead of UTC, so the handler took the row's date
\* for yesterday's and went through the existence check of the routine
C34_Witness ==
  \E p, q \in SummaryProcs :
    /\ p # q /\ tz = 1
    /\ proc[p].pc = "done" /\ proc[p].wrote /\ proc[p].nlp = "ok"
    /\ proc[q].pc = "done" /\ ~proc[q].hit
    /\ proc[q].userId = proc[p].userId
    /\ proc[q].recent # <<>>
    /\ proc[q].recent[1].summary_date = proc[q].today
    /\ proc[q].recent[1].summary = p
    /\ proc[q].resp = [status |-> 200, body |-> SummaryBody(proc[q].recent[1])]


\* C35: an on-demand generation whose insert is refused because a concurrent
\* generation stored the row of (owner, today) first does not raise: the
\* routine returns, and GET /insights/summary reads today's row and answers
\* it with success status (500 only when that read itself fails).
C35_LoserAnswersWinningSummary ==
  [][\A p \in Requests :
       LET winning == {r \in summaries : /\ r.user_id = proc[p].userId
                                         /\ r.summary_date = proc[p].today} IN
       /\ (Steps(p, "g_insert") /\ winning # {}) =>
            /\ proc'[p].pc = "s_new"
            /\ summaries' = summaries
            /\ proc'[p].cause \in {"store", "unique"}
       /\ (Steps(p, "s_new") /\ proc[p].cause = "unique") =>
            /\ winning # {}
            /\ proc'[p].pc = "done"
            /\ \/ proc'[p].cause = "store" /\ proc'[p].resp.status = 500
               \/ /\ proc'[p].resp.status = 200
                  /\ \E r \in winning :
                       /\ r.summary # p
                       /\ proc'[p].resp.body = SummaryBody(r)]_vars

\* the request lost against the cron run and answered the cron run's row
C35_Witness ==
  \E p \in SummaryProcs :
    /\ proc[p].pc = "done" /\ proc[p].cause = "unique" /\ ~proc[p].wrote
    /\ proc[p].nlp = "ok"
    /\ proc[p].resp.status = 200
    /\ proc[p].resp.body.summary = Cron
    /\ proc[p].resp.body.generated_date = proc[p].today


\* C36: a reply of the NLP summarizer without a summary text leaves no
\* daily_summaries row: no stored row is without its text, and a generation
\* that got such a reply has written nothing.
C36_UnusableSummaryStoresNothing ==
  /\ \A r \in summaries : r.summary # Undefined
  /\ \A p \in Procs : proc[p].nlp = "unusable" => ~proc[p].wrote


\* C37: the emotions of an entry change only together with its content: a
\* PUT /journals/:id whose content is the stored one does not go to the
\* classifier, and no step leaves an entry with its content and other
\* emotions (PATCH favourite among them).
C37_EmotionsFollowContent ==
  [][/\ \A e \in entries : \A f \in entries' :
          (f.journal_id = e.journal_id /\ f.content = e.content)
            => EmotionsOf(f) = EmotionsOf(e)
     /\ \A p \in Requests :
          ( /\ Steps(p, "ju_exist")
            /\ \E e \in entries : /\ e.journal_id = proc[p].req.id
                                  /\ e.user_id = proc[p].userId
                                  /\ e.content = proc[p].req.content )
          => proc'[p].pc # "j_emotion"]_vars


\* C38: a call of the NLP service, by the quote handler, by a summary
\* request or by the cron run, is made with at least one entry, and every
\* daily_summaries row counts at least one entry.
C38_NlpNeverGetsNothing ==
  /\ \A p \in Procs : proc[p].pc \in {"q_nlp", "g_nlp"} => proc[p].count >= 1
  /\ \A r \in summaries : r.entry_count >= 1

\* the owner deleted the only entry: one generation found the window empty
\* and called nothing, after another had stored a summary
C38_Witness ==
  /\ \E r \in summaries : r # SeedSummary /\ r.entry_count >= 1
  /\ \E p \in Procs : proc[p].nlp = "skipped" /\ proc[p].pc # "q_nlp"
  /\ entries = {}


\* C39: the user object in a successful answer of POST /auth/google is the
\* users row of the token's subject, whatever email the body carries, and
\* a step of the route changes no row of another subject.
C39_GoogleAnswersOwnRowOnly ==
  /\ [](\A p \in Requests :
          ( /\ proc[p].kind = "google" /\ proc[p].pc = "done"
            /\ proc[p].resp.status \in {200, 201} )
          => proc[p].resp.body.user.firebase_uid = proc[p].uid)
  /\ [][\A p \in Requests :
          (proc[p].kind = "google" /\ proc'[p] # proc[p]) =>
            \A u \in users : u.firebase_uid # proc[p].uid => u \in users']_vars


\* C40: topEmotions answers the message 'No journal entries found in the
\* last 30 days' only to an owner without an entry created in the window,
\* whatever the emotions of the owner's entries.
C40_MessageOnlyWithoutEntries ==
  [][\A p \in Requests :
       (Steps(p, "e_query") /\ proc'[p].resp.body = TopNothing) =>
         ~\E e \in entries : /\ e.user_id = proc[p].userId
                             /\ e.created_at >= DateMinus(30)]_vars

====
